---- MODULE Spec2Model ----
(***************************************************************************)
(* Stream VByte: encode driver, scalar / SSE4.1 encode kernels, scalar /   *)
(* SSSE3 decode kernels and the streaming DecodeCursor.                    *)
(*                                                                         *)
(* A u32 is the record [hi, lo] of its two 16-bit halves (the values of    *)
(* interest exceed the model checker's integer range).  Byte buffers are   *)
(* sequences over 0..255; offsets are 0-based as in the source, sequence   *)
(* positions 1-based.  A 128-bit register is a sequence of 16 bytes.       *)
(***************************************************************************)
EXTENDS Integers, Sequences, FiniteSets, TLC

\* ------------------------------------------------------------------ bounds
\* longest generated input (numbers)
MaxLen == 21
\* number of value patterns per input length
MaxPattern == 1
\* a call asks for at most ExtraRequest numbers more than are left
ExtraRequest == 4
\* a skip asks for at most ExtraSkip numbers more than are left
ExtraSkip == 4
\* slots of the caller's decode buffer after the slice passed to a call
ExtraSlots == 1

\* ------------------------------------------------------------ u32 and bytes
U32(h, l) == [hi |-> h, lo |-> l]

RECURSIVE BitLen(_)
BitLen(x) == IF x = 0 THEN 0 ELSE 1 + BitLen(x \div 2)

\* u32::leading_zeros
leading_zeros(n) == IF n.hi > 0 THEN 16 - BitLen(n.hi) ELSE 32 - BitLen(n.lo)

\* LittleEndian::write_u32 into a 4-byte buffer
\* mutant: the most significant byte first
write_u32_big_endian(n) ==
    << n.hi \div 256, n.hi % 256, n.lo \div 256, n.lo % 256 >>

write_u32(n) == << n.lo % 256, n.lo \div 256, n.hi % 256, n.hi \div 256 >>

\* LittleEndian::read_u32 of a 4-byte buffer
read_u32(buf) == U32(buf[3] + 256 * buf[4], buf[1] + 256 * buf[2])

\* let r = v; F(r): v is computed once, whatever the number of uses of r
Bind(v, F(_)) == CHOOSE x \in { F(r) : r \in { v } } : TRUE

Max(a, b) == IF a >= b THEN a ELSE b
Min(a, b) == IF a <= b THEN a ELSE b

\* mutant: one less is taken away
saturating_sub_one_less(a, b) == IF a >= b - 1 THEN a - (b - 1) ELSE 0

\* 1 << (i * 2), the weight of bit pair i of a control byte
Pow4(i) == IF i = 0 THEN 1 ELSE IF i = 1 THEN 4 ELSE IF i = 2 THEN 16 ELSE 64

\* usize::saturating_sub
saturating_sub(a, b) == IF a >= b THEN a - b ELSE 0

\* buf[from .. from+len) with 0-based from
Slice(buf, from, len) == SubSeq(buf, from + 1, from + len)

\* buf with bytes stored at 0-based offset at (stores past the end are lost)
Store(buf, at, bytes) ==
    IF at + Len(bytes) <= Len(buf)
    THEN SubSeq(buf, 1, at) \o bytes
           \o SubSeq(buf, at + Len(bytes) + 1, Len(buf))
    ELSE IF at >= Len(buf) THEN buf
    ELSE SubSeq(buf, 1, at) \o SubSeq(bytes, 1, Len(buf) - at)

\* ------------------------------------------------------------ encoded shape
\* mutant: the control byte count as count / 4 + 1
encoded_shape_plus_one(count) ==
    [control_bytes_len |-> (count \div 4) + 1,
     complete_control_bytes_len |-> count \div 4,
     leftover_numbers |-> count % 4]

encoded_shape(count) ==
    [control_bytes_len |-> (count + 3) \div 4,
     complete_control_bytes_len |-> count \div 4,
     leftover_numbers |-> count % 4]

\* ------------------------------------------------------------------- tables
\* lengths of the four numbers of a control byte (lane 0 first)
lengths_for_control_byte(byte) ==
    << (byte % 4) + 1,
       ((byte \div 4) % 4) + 1,
       ((byte \div 16) % 4) + 1,
       ((byte \div 64) % 4) + 1 >>

DECODE_LENGTH_PER_NUM_TABLE(b) == lengths_for_control_byte(b)

\* mutant: the lane codes are summed without the length they stand for
DECODE_LENGTH_PER_QUAD_TABLE_codes(b) ==
    LET l == lengths_for_control_byte(b) IN l[1] + l[2] + l[3] + l[4] - 4

DECODE_LENGTH_PER_QUAD_TABLE(b) ==
    LET l == lengths_for_control_byte(b) IN l[1] + l[2] + l[3] + l[4]

\* mutant: the bytes above the encoded length are not zeroed
push_decode_u32_shuffle_bytes_no_zero(start_of_encoded_num, encoded_length) ==
    SubSeq([l \in 1..4 |-> (start_of_encoded_num + l - 1) % 16], 1, 4)

\* 4 shuffle bytes of one decoded lane: the encoded bytes, then 0x80 (zero)
push_decode_u32_shuffle_bytes(start_of_encoded_num, encoded_length) ==
    SubSeq([l \in 1..4 |-> IF l <= encoded_length
                           THEN start_of_encoded_num + l - 1 ELSE 128], 1, 4)

X86_SSSE3_DECODE_SHUFFLE_TABLE(b) ==
    LET l == lengths_for_control_byte(b) IN
    push_decode_u32_shuffle_bytes(0, l[1])
      \o push_decode_u32_shuffle_bytes(l[1], l[2])
      \o push_decode_u32_shuffle_bytes(l[1] + l[2], l[3])
      \o push_decode_u32_shuffle_bytes(l[1] + l[2] + l[3], l[4])

\* mutant: the high bytes of the lane are taken
push_encode_u32_shuffle_bytes_high(start_of_num, encoded_length) ==
    SubSeq([l \in 1..encoded_length |->
               start_of_num + (4 - encoded_length) + l - 1],
           1, encoded_length)

\* shuffle bytes of one encoded lane: only the low bytes that are set
push_encode_u32_shuffle_bytes(start_of_num, encoded_length) ==
    SubSeq([l \in 1..encoded_length |-> start_of_num + l - 1],
           1, encoded_length)

X86_ENCODE_SHUFFLE_TABLE(b) ==
    LET l == lengths_for_control_byte(b)
        s == push_encode_u32_shuffle_bytes(0, l[1])
               \o push_encode_u32_shuffle_bytes(4, l[2])
               \o push_encode_u32_shuffle_bytes(8, l[3])
               \o push_encode_u32_shuffle_bytes(12, l[4])
    IN  SubSeq(s \o [i \in 1..16 |-> 128], 1, 16)

\* mutant: the length of the fourth number of each quad is forgotten
RECURSIVE cumulative_encoded_len_three_lanes(_)
cumulative_encoded_len_three_lanes(control_bytes) ==
    IF control_bytes = << >> THEN 0
    ELSE LET l == lengths_for_control_byte(Head(control_bytes))
         IN  l[1] + l[2] + l[3]
               + cumulative_encoded_len_three_lanes(Tail(control_bytes))

RECURSIVE cumulative_encoded_len(_)
cumulative_encoded_len(control_bytes) ==
    IF control_bytes = << >> THEN 0
    ELSE DECODE_LENGTH_PER_QUAD_TABLE(Head(control_bytes))
           + cumulative_encoded_len(Tail(control_bytes))

\* ------------------------------------------------------- 128-bit intrinsics
\* _mm_shuffle_epi8(a, mask)
mm_shuffle_epi8(a, mask) ==
    Bind(<< a, mask >>, LAMBDA r :
        SubSeq([i \in 1..16 |->
                   IF r[2][i] >= 128 THEN 0 ELSE r[1][(r[2][i] % 16) + 1]],
               1, 16))

\* _mm_min_epu8(a, b)
mm_min_epu8(a, b) == SubSeq([i \in 1..16 |-> Min(a[i], b[i])], 1, 16)

\* 32-bit multiply modulo 2^32 of two little-endian 4-byte lanes
MulLo32(a, b) ==
    LET c0 == a[1] * b[1]
        c1 == a[1] * b[2] + a[2] * b[1] + (c0 \div 256)
        c2 == a[1] * b[3] + a[2] * b[2] + a[3] * b[1] + (c1 \div 256)
        c3 == a[1] * b[4] + a[2] * b[3] + a[3] * b[2] + a[4] * b[1]
                + (c2 \div 256)
    IN  << c0 % 256, c1 % 256, c2 % 256, c3 % 256 >>

\* _mm_mullo_epi32(a, b)
mm_mullo_epi32(a, b) ==
    MulLo32(Slice(a, 0, 4), Slice(b, 0, 4))
      \o MulLo32(Slice(a, 4, 4), Slice(b, 4, 4))
      \o MulLo32(Slice(a, 8, 4), Slice(b, 8, 4))
      \o MulLo32(Slice(a, 12, 4), Slice(b, 12, 4))

\* four u32 viewed as a register (x86 is little-endian)
QuadBytes(input, at) ==
    write_u32(input[at + 1]) \o write_u32(input[at + 2])
      \o write_u32(input[at + 3]) \o write_u32(input[at + 4])

\* ------------------------------------------------------------ scalar encode
\* mutant: a store outside the buffer is dropped silently
encode_num_scalar_unchecked(num, output, at) ==
    LET len == Max(1, 4 - (leading_zeros(num) \div 8))
        buf == write_u32(num)
    IN  [len |-> len,
         output |-> Store(output, at, Slice(buf, 0, len)),
         ok |-> TRUE]

\* encode_num_scalar(num, &mut output[at..]): the length, the buffer after the
\* stores, and whether every store was inside the buffer
encode_num_scalar(num, output, at) ==
    LET len == Max(1, 4 - (leading_zeros(num) \div 8))
        buf == write_u32(num)
    IN  [len |-> len,
         output |-> Store(output, at, Slice(buf, 0, len)),
         ok |-> at + len <= Len(output)]

\* mutant: the first number of the quad in the highest bit pair
do_encode_quads_step_reversed(input, s, quads_encoded) ==
    LET e0 == encode_num_scalar(input[s.nums_encoded + 1], s.encoded_nums,
                                s.bytes_written)
        e1 == encode_num_scalar(input[s.nums_encoded + 2], e0.output,
                                s.bytes_written + e0.len)
        e2 == encode_num_scalar(input[s.nums_encoded + 3], e1.output,
                                s.bytes_written + e0.len + e1.len)
        e3 == encode_num_scalar(input[s.nums_encoded + 4], e2.output,
                                s.bytes_written + e0.len + e1.len + e2.len)
        control_byte == (e3.len - 1) + (e2.len - 1) * 4 + (e1.len - 1) * 16
                          + (e0.len - 1) * 64
    IN  [ok |-> e0.ok /\ e1.ok /\ e2.ok /\ e3.ok,
         control_bytes |-> Store(s.control_bytes, quads_encoded,
                                 << control_byte >>),
         encoded_nums |-> e3.output,
         bytes_written |-> s.bytes_written + e0.len + e1.len + e2.len + e3.len,
         nums_encoded |-> s.nums_encoded + 4]

\* one iteration of the loop of do_encode_quads
do_encode_quads_step(input, s, quads_encoded) ==
    LET e0 == encode_num_scalar(input[s.nums_encoded + 1], s.encoded_nums,
                                s.bytes_written)
        e1 == encode_num_scalar(input[s.nums_encoded + 2], e0.output,
                                s.bytes_written + e0.len)
        e2 == encode_num_scalar(input[s.nums_encoded + 3], e1.output,
                                s.bytes_written + e0.len + e1.len)
        e3 == encode_num_scalar(input[s.nums_encoded + 4], e2.output,
                                s.bytes_written + e0.len + e1.len + e2.len)
        control_byte == (e0.len - 1) + (e1.len - 1) * 4 + (e2.len - 1) * 16
                          + (e3.len - 1) * 64
    IN  [ok |-> e0.ok /\ e1.ok /\ e2.ok /\ e3.ok,
         control_bytes |-> Store(s.control_bytes, quads_encoded,
                                 << control_byte >>),
         encoded_nums |-> e3.output,
         bytes_written |-> s.bytes_written + e0.len + e1.len + e2.len + e3.len,
         nums_encoded |-> s.nums_encoded + 4]

RECURSIVE do_encode_quads_loop(_, _, _)
do_encode_quads_loop(input, s, quads_encoded) ==
    IF quads_encoded >= Len(s.control_bytes) \/ ~s.ok THEN s
    ELSE IF s.nums_encoded + 4 > Len(input) THEN [s EXCEPT !.ok = FALSE]
    ELSE do_encode_quads_loop(input,
                              do_encode_quads_step(input, s, quads_encoded),
                              quads_encoded + 1)

\* scalar::do_encode_quads (and Scalar::encode_quads, which only calls it)
do_encode_quads(input, control_bytes, encoded_nums) ==
    do_encode_quads_loop(input,
        [ok |-> TRUE, control_bytes |-> control_bytes,
         encoded_nums |-> encoded_nums, bytes_written |-> 0,
         nums_encoded |-> 0], 0)

\* ------------------------------------------------------------ SSE4.1 encode
ONES == [i \in 1..16 |-> 1]
\* SHIFT = 1 | 1 << 9 | 1 << 18, little-endian bytes
SHIFT == << 1, 2, 4, 0 >>
SHIFTS == SHIFT \o SHIFT \o SHIFT \o SHIFT
LANECODES == << 0, 3, 2, 3, 1, 3, 2, 3,
                128, 128, 128, 128, 128, 128, 128, 128 >>
\* mutant: the high bytes are gathered lane 0 first
GATHER_HI_ascending == << 3, 7, 11, 15, 3, 7, 11, 15,
                          128, 128, 128, 128, 128, 128, 128, 128 >>

GATHER_HI == << 15, 11, 7, 3, 15, 11, 7, 3,
                128, 128, 128, 128, 128, 128, 128, 128 >>
\* CONCAT = 1 | 1 << 10 | 1 << 20 | 1 << 30, little-endian bytes
CONCAT == << 1, 4, 16, 64 >>
\* SUM = 1 | 1 << 8 | 1 << 16 | 1 << 24, little-endian bytes
SUM == << 1, 1, 1, 1 >>
AGGREGATORS == CONCAT \o SUM \o << 0, 0, 0, 0 >> \o << 0, 0, 0, 0 >>

\* the register code_and_length the kernel computes for a register of four
\* numbers
code_and_length(to_encode) ==
    LET mins == mm_min_epu8(to_encode, ONES)
        bytemaps == mm_mullo_epi32(mins, SHIFTS)
        shuffled_lanecodes == mm_shuffle_epi8(LANECODES, bytemaps)
        hi_bytes == mm_shuffle_epi8(shuffled_lanecodes, GATHER_HI)
    IN  mm_mullo_epi32(hi_bytes, AGGREGATORS)

\* bytes.extract(3) and bytes.extract(7) + 4 of a register code_and_length
ExtractCodeAndLength(bytes) ==
    [code |-> bytes[4], length |-> (bytes[8] + 4) % 256]

\* control byte and length the kernel derives for a register of four numbers
Sse41CodeAndLength(to_encode) ==
    ExtractCodeAndLength(code_and_length(to_encode))

\* one iteration of the loop of Sse41::encode_quads
Sse41Step(input, s, q) ==
    LET to_encode == QuadBytes(input, s.nums_encoded)
        cl == Sse41CodeAndLength(to_encode)
        encode_mask == X86_ENCODE_SHUFFLE_TABLE(cl.code)
        encoded == mm_shuffle_epi8(to_encode, encode_mask)
        inside == s.bytes_written + 16 <= Len(s.encoded_nums)
    IN  [ok |-> inside,
         control_bytes |-> IF inside
                           THEN Store(s.control_bytes, q, << cl.code >>)
                           ELSE s.control_bytes,
         encoded_nums |-> IF inside
                          THEN Store(s.encoded_nums, s.bytes_written, encoded)
                          ELSE s.encoded_nums,
         bytes_written |-> s.bytes_written + cl.length,
         nums_encoded |-> s.nums_encoded + 4]

RECURSIVE Sse41Loop(_, _, _, _)
Sse41Loop(input, s, q, control_byte_limit) ==
    IF q >= control_byte_limit \/ ~s.ok THEN s
    ELSE IF s.nums_encoded + 4 > Len(input) THEN [s EXCEPT !.ok = FALSE]
    ELSE Sse41Loop(input, Sse41Step(input, s, q), q + 1, control_byte_limit)

\* mutant: the kernel also encodes the last three control bytes
Sse41_encode_quads_to_the_end(input, control_bytes, output) ==
    Sse41Loop(input,
        [ok |-> TRUE, control_bytes |-> control_bytes,
         encoded_nums |-> output, bytes_written |-> 0, nums_encoded |-> 0],
        0, Len(control_bytes))

\* mutant: the kernel leaves only the last two control bytes
Sse41_encode_quads_all_but_two(input, control_bytes, output) ==
    Sse41Loop(input,
        [ok |-> TRUE, control_bytes |-> control_bytes,
         encoded_nums |-> output, bytes_written |-> 0, nums_encoded |-> 0],
        0, saturating_sub(Len(control_bytes), 2))

\* Sse41::encode_quads
Sse41_encode_quads(input, control_bytes, output) ==
    Sse41Loop(input,
        [ok |-> TRUE, control_bytes |-> control_bytes,
         encoded_nums |-> output, bytes_written |-> 0, nums_encoded |-> 0],
        0, saturating_sub(Len(control_bytes), 3))

\* ------------------------------------------------------------ encode driver
Encoders == {"Scalar", "Sse41"}

\* E::encode_quads
encode_quads(E, input, control_bytes, output) ==
    IF E = "Sse41" THEN Sse41_encode_quads(input, control_bytes, output)
    ELSE do_encode_quads(input, control_bytes, output)

\* the trailing partial quad: numbers i .. leftover_numbers-1
RECURSIVE EncodeLeftovers(_, _, _, _)
EncodeLeftovers(input, shape, s, i) ==
    IF i >= shape.leftover_numbers \/ ~s.ok THEN s
    ELSE LET e == encode_num_scalar(input[s.nums_encoded + 1], s.encoded_bytes,
                                    s.num_bytes_written)
         IN  EncodeLeftovers(input, shape,
                [ok |-> e.ok,
                 control_byte |-> s.control_byte
                                    + (e.len - 1) * (IF i = 0 THEN 1
                                                     ELSE IF i = 1 THEN 4
                                                     ELSE 16),
                 encoded_bytes |-> e.output,
                 num_bytes_written |-> s.num_bytes_written + e.len,
                 nums_encoded |-> s.nums_encoded + 1],
                i + 1)

\* encode_transformed, the end: the control byte of the partial quad (left is
\* the state after the leftover loop) and the returned length
EncodeReturn(shape, control_bytes2, left) ==
    IF ~left.ok
    THEN [ok |-> FALSE, output |-> control_bytes2 \o left.encoded_bytes,
          ret |-> 0]
    ELSE [ok |-> TRUE,
          output |-> (IF shape.leftover_numbers > 0
                      THEN Store(control_bytes2,
                                 shape.complete_control_bytes_len,
                                 << left.control_byte >>)
                      ELSE control_bytes2) \o left.encoded_bytes,
          ret |-> Len(control_bytes2) + left.num_bytes_written]

\* encode_transformed after the scalar mop-up (more): the leftover loop
EncodeTail(input, shape, control_bytes, first, more) ==
    LET control_bytes_written == first.nums_encoded \div 4
        control_bytes2 == Store(Store(control_bytes, 0, first.control_bytes),
                                control_bytes_written, more.control_bytes)
        encoded_bytes2 == Store(first.encoded_nums, first.bytes_written,
                                more.encoded_nums)
    IN  IF ~more.ok
        THEN [ok |-> FALSE, output |-> control_bytes2 \o encoded_bytes2,
              ret |-> 0]
        ELSE EncodeReturn(shape, control_bytes2,
                EncodeLeftovers(input, shape,
                    [ok |-> TRUE, control_byte |-> 0,
                     encoded_bytes |-> encoded_bytes2,
                     num_bytes_written |->
                         first.bytes_written + more.bytes_written,
                     nums_encoded |-> shape.complete_control_bytes_len * 4],
                    0))

\* encode_transformed after E::encode_quads (first): the scalar mop-up of the
\* complete quads the encoder left
EncodeMopUp(input, shape, control_bytes, encoded_bytes, first) ==
    LET control_bytes_written == first.nums_encoded \div 4
    IN  IF ~first.ok
        THEN [ok |-> FALSE,
              output |-> Store(control_bytes, 0, first.control_bytes)
                           \o first.encoded_nums,
              ret |-> 0]
        ELSE EncodeTail(input, shape, control_bytes, first,
                do_encode_quads(
                    Slice(input, first.nums_encoded,
                          Len(input) - first.nums_encoded),
                    Slice(first.control_bytes, control_bytes_written,
                          shape.complete_control_bytes_len
                            - control_bytes_written),
                    Slice(first.encoded_nums, first.bytes_written,
                          Len(encoded_bytes) - first.bytes_written)))

\* encode_transformed on a non-empty input of the given shape
EncodeSplit(E, input, output, shape) ==
    LET control_bytes == Slice(output, 0, shape.control_bytes_len)
        encoded_bytes == Slice(output, shape.control_bytes_len,
                               Len(output) - shape.control_bytes_len)
    IN  IF shape.control_bytes_len > Len(output)
        THEN [ok |-> FALSE, output |-> output, ret |-> 0]
        ELSE EncodeMopUp(input, shape, control_bytes, encoded_bytes,
                encode_quads(E, input,
                    Slice(control_bytes, 0, shape.complete_control_bytes_len),
                    encoded_bytes))

\* encode::<E>(input, output) = encode_transformed: the bytes of output after
\* the call, the returned length, and ok = no slice bound was violated
encode_transformed(E, input, output) ==
    IF Len(input) = 0 THEN [ok |-> TRUE, output |-> output, ret |-> 0]
    ELSE EncodeSplit(E, input, output, encoded_shape(Len(input)))

\* ------------------------------------------------------------ decode kernels
Decoders == {"Scalar", "Ssse3"}

\* mutant: the bytes above len are not zeroed
decode_num_scalar_unmasked(len, input, at) ==
    Bind(SubSeq([i \in 1..4 |-> IF at + i <= Len(input)
                                THEN input[at + i] ELSE 0], 1, 4),
         LAMBDA buf : [ok |-> at + len <= Len(input), num |-> read_u32(buf)])

\* decode_num_scalar(len, &input[at..])
decode_num_scalar(len, input, at) ==
    Bind(SubSeq([i \in 1..4 |-> IF i <= len /\ at + i <= Len(input)
                                THEN input[at + i] ELSE 0], 1, 4),
         LAMBDA buf : [ok |-> at + len <= Len(input), num |-> read_u32(buf)])

\* sink.on_number(num, nums_decoded)
NumberEvent(num, nums_decoded) ==
    [on |-> "number", index |-> nums_decoded, num |-> num, quad |-> << >>]

\* sink.on_quad(quad, nums_decoded)
QuadEvent(quad, nums_decoded) ==
    [on |-> "quad", index |-> nums_decoded, num |-> U32(0, 0), quad |-> quad]

\* one iteration of the loop of Scalar::decode_quads
ScalarDecodeStep(control_byte, encoded_nums, s) ==
    LET l == DECODE_LENGTH_PER_NUM_TABLE(control_byte)
        d0 == decode_num_scalar(l[1], encoded_nums, s.bytes_read)
        d1 == decode_num_scalar(l[2], encoded_nums, s.bytes_read + l[1])
        d2 == decode_num_scalar(l[3], encoded_nums, s.bytes_read + l[1] + l[2])
        d3 == decode_num_scalar(l[4], encoded_nums,
                                s.bytes_read + l[1] + l[2] + l[3])
    IN  [ok |-> d0.ok /\ d1.ok /\ d2.ok /\ d3.ok,
         events |-> s.events \o << NumberEvent(d0.num, s.nums_decoded),
                                   NumberEvent(d1.num, s.nums_decoded + 1),
                                   NumberEvent(d2.num, s.nums_decoded + 2),
                                   NumberEvent(d3.num, s.nums_decoded + 3) >>,
         bytes_read |-> s.bytes_read + l[1] + l[2] + l[3] + l[4],
         nums_decoded |-> s.nums_decoded + 4]

RECURSIVE ScalarDecodeLoop(_, _, _, _, _)
ScalarDecodeLoop(control_bytes, encoded_nums, s, i, control_byte_limit) ==
    IF i >= control_byte_limit \/ ~s.ok THEN s
    ELSE Bind(ScalarDecodeStep(control_bytes[i + 1], encoded_nums, s),
              LAMBDA t : ScalarDecodeLoop(control_bytes, encoded_nums, t,
                                          i + 1, control_byte_limit))

\* mutant: one control byte more than the budget is decoded
Scalar_decode_quads_one_more(control_bytes, encoded_nums, control_bytes_to_decode, nums_already_decoded) ==
    Bind(<< control_bytes, encoded_nums >>, LAMBDA r :
        Bind(ScalarDecodeLoop(r[1], r[2],
                [ok |-> TRUE, events |-> << >>, bytes_read |-> 0,
                 nums_decoded |-> nums_already_decoded],
                0, Min(Len(r[1]), control_bytes_to_decode + 1)),
             LAMBDA s : [s EXCEPT !.nums_decoded =
                                      s.nums_decoded - nums_already_decoded]))

\* Scalar::decode_quads: [ok, events, nums_decoded, bytes_read]
Scalar_decode_quads(control_bytes, encoded_nums, control_bytes_to_decode, nums_already_decoded) ==
    Bind(<< control_bytes, encoded_nums >>, LAMBDA r :
        Bind(ScalarDecodeLoop(r[1], r[2],
                [ok |-> TRUE, events |-> << >>, bytes_read |-> 0,
                 nums_decoded |-> nums_already_decoded],
                0, Min(Len(r[1]), control_bytes_to_decode)),
             LAMBDA s : [s EXCEPT !.nums_decoded =
                                      s.nums_decoded - nums_already_decoded]))

\* one iteration of the loop of Ssse3::decode_quads
Ssse3DecodeStep(control_byte, encoded_nums, s) ==
    LET length == DECODE_LENGTH_PER_QUAD_TABLE(control_byte)
        mask == X86_SSSE3_DECODE_SHUFFLE_TABLE(control_byte)
        inside == s.bytes_read + 16 <= Len(encoded_nums)
        data == SubSeq([i \in 1..16 |->
                           IF s.bytes_read + i <= Len(encoded_nums)
                           THEN encoded_nums[s.bytes_read + i] ELSE 0], 1, 16)
        decompressed == mm_shuffle_epi8(data, mask)
    IN  [ok |-> inside,
         events |-> IF inside
                    THEN Append(s.events, QuadEvent(decompressed,
                                                    s.nums_decoded))
                    ELSE s.events,
         bytes_read |-> s.bytes_read + length,
         nums_decoded |-> s.nums_decoded + 4]

RECURSIVE Ssse3DecodeLoop(_, _, _, _, _)
Ssse3DecodeLoop(control_bytes, encoded_nums, s, i, control_byte_limit) ==
    IF i >= control_byte_limit \/ ~s.ok THEN s
    ELSE Bind(Ssse3DecodeStep(control_bytes[i + 1], encoded_nums, s),
              LAMBDA t : Ssse3DecodeLoop(control_bytes, encoded_nums, t,
                                         i + 1, control_byte_limit))

\* mutant: the kernel also decodes the last three control bytes
Ssse3_decode_quads_to_the_end(control_bytes, encoded_nums, control_bytes_to_decode, nums_already_decoded) ==
    Bind(<< control_bytes, encoded_nums >>, LAMBDA r :
        Bind(Ssse3DecodeLoop(r[1], r[2],
                [ok |-> TRUE, events |-> << >>, bytes_read |-> 0,
                 nums_decoded |-> nums_already_decoded],
                0, Min(control_bytes_to_decode, Len(r[1]))),
             LAMBDA s : [s EXCEPT !.nums_decoded =
                                      s.nums_decoded - nums_already_decoded]))

\* Ssse3::decode_quads: [ok, events, nums_decoded, bytes_read]
Ssse3_decode_quads(control_bytes, encoded_nums, control_bytes_to_decode, nums_already_decoded) ==
    Bind(<< control_bytes, encoded_nums >>, LAMBDA r :
        Bind(Ssse3DecodeLoop(r[1], r[2],
                [ok |-> TRUE, events |-> << >>, bytes_read |-> 0,
                 nums_decoded |-> nums_already_decoded],
                0, Min(control_bytes_to_decode,
                   saturating_sub(Len(r[1]), 3))),
             LAMBDA s : [s EXCEPT !.nums_decoded =
                                      s.nums_decoded - nums_already_decoded]))

\* D::decode_quads
decode_quads(D, control_bytes, encoded_nums, max_control_bytes_to_decode, nums_already_decoded) ==
    IF D = "Ssse3"
    THEN Ssse3_decode_quads(control_bytes, encoded_nums,
                            max_control_bytes_to_decode, nums_already_decoded)
    ELSE Scalar_decode_quads(control_bytes, encoded_nums,
                             max_control_bytes_to_decode, nums_already_decoded)

\* ------------------------------------------------------------- DecodeCursor
\* DecodeCursor::new(input, count)
DecodeCursor_new(input, count) ==
    LET shape == encoded_shape(count)
        cblen == Min(shape.control_bytes_len, Len(input))
    IN  [control_bytes |-> Slice(input, 0, cblen),
         encoded_nums |-> Slice(input, cblen, Len(input) - cblen),
         encoded_shape |-> shape,
         total_nums |-> count,
         nums_decoded |-> 0,
         control_bytes_read |-> 0,
         encoded_bytes_read |-> 0]

MultipleOf4Msg == "Must be a multiple of 4"
SkipPastEndMsg == "Can't skip past the end of complete control bytes"
OutputTooSmallMsg == "output buffer was not large enough"
SliceBoundsMsg == "slice bounds"
NoPanic == "none"

\* mutant: the control bytes skipped are not counted
skip_numbers_only(c, to_skip) ==
    LET control_bytes_to_skip == to_skip \div 4
        slice_to_skip == Slice(c.control_bytes, c.control_bytes_read,
                               control_bytes_to_skip)
        skipped_encoded_len == cumulative_encoded_len(slice_to_skip)
    IN  IF to_skip % 4 # 0
        THEN [panic |-> MultipleOf4Msg, cursor |-> c]
        ELSE IF ~(c.control_bytes_read + control_bytes_to_skip
                    <= c.encoded_shape.complete_control_bytes_len)
        THEN [panic |-> SkipPastEndMsg, cursor |-> c]
        ELSE [panic |-> NoPanic,
              cursor |-> [c EXCEPT
                 !.encoded_bytes_read = @ + skipped_encoded_len,
                 !.nums_decoded = @ + to_skip]]

\* mutant: the counters are advanced before the second assertion
skip_advance_first(c, to_skip) ==
    LET control_bytes_to_skip == to_skip \div 4
        inRange == c.control_bytes_read + control_bytes_to_skip
                     <= c.encoded_shape.complete_control_bytes_len
        skipped_encoded_len ==
            cumulative_encoded_len(
                Slice(c.control_bytes, c.control_bytes_read,
                      IF inRange THEN control_bytes_to_skip ELSE 0))
        advanced == [c EXCEPT
                 !.control_bytes_read = @ + control_bytes_to_skip,
                 !.encoded_bytes_read = @ + skipped_encoded_len,
                 !.nums_decoded = @ + to_skip]
    IN  IF to_skip % 4 # 0
        THEN [panic |-> MultipleOf4Msg, cursor |-> c]
        ELSE IF ~inRange
        THEN [panic |-> SkipPastEndMsg, cursor |-> advanced]
        ELSE [panic |-> NoPanic, cursor |-> advanced]

\* DecodeCursor::skip(to_skip): the panic message (or NoPanic) and the cursor
\* as the call leaves it
skip(c, to_skip) ==
    LET control_bytes_to_skip == to_skip \div 4
        slice_to_skip == Slice(c.control_bytes, c.control_bytes_read,
                               control_bytes_to_skip)
        skipped_encoded_len == cumulative_encoded_len(slice_to_skip)
    IN  IF to_skip % 4 # 0
        THEN [panic |-> MultipleOf4Msg, cursor |-> c]
        ELSE IF ~(c.control_bytes_read + control_bytes_to_skip
                    <= c.encoded_shape.complete_control_bytes_len)
        THEN [panic |-> SkipPastEndMsg, cursor |-> c]
        ELSE [panic |-> NoPanic,
              cursor |-> [c EXCEPT
                 !.control_bytes_read = @ + control_bytes_to_skip,
                 !.encoded_bytes_read = @ + skipped_encoded_len,
                 !.nums_decoded = @ + to_skip]]

\* the not yet read complete control bytes and payload of a cursor
RemainingControlBytes(c) ==
    Slice(c.control_bytes, c.control_bytes_read,
          c.encoded_shape.complete_control_bytes_len - c.control_bytes_read)

\* mutant: the payload is taken from its start at every call
RemainingEncodedNums_from_start(c) == c.encoded_nums

RemainingEncodedNums(c) ==
    Slice(c.encoded_nums, c.encoded_bytes_read,
          Len(c.encoded_nums) - c.encoded_bytes_read)

\* mutant: the length code of a leftover number is not masked to its bit pair
RECURSIVE DecodeLeftovers_unmasked(_, _, _)
DecodeLeftovers_unmasked(s, complete_quad_nums_decoded_this_invocation, i) ==
    IF i >= s.cursor.encoded_shape.leftover_numbers \/ ~s.ok THEN s
    ELSE
    LET c == s.cursor
        control_byte ==
            c.control_bytes[c.encoded_shape.complete_control_bytes_len + 1]
        len == (control_byte \div Pow4(i)) + 1
        d == decode_num_scalar(len, c.encoded_nums, c.encoded_bytes_read)
    IN  Bind([ok |-> d.ok /\ len <= 4,
              events |-> Append(s.events,
                  NumberEvent(d.num,
                              complete_quad_nums_decoded_this_invocation + i)),
              cursor |-> [c EXCEPT !.nums_decoded = @ + 1,
                                   !.encoded_bytes_read = @ + len]],
             LAMBDA t : DecodeLeftovers_unmasked(t,
                 complete_quad_nums_decoded_this_invocation, i + 1))

\* the loop over the trailing partial quad in decode_sink
RECURSIVE DecodeLeftovers(_, _, _)
DecodeLeftovers(s, complete_quad_nums_decoded_this_invocation, i) ==
    IF i >= s.cursor.encoded_shape.leftover_numbers \/ ~s.ok THEN s
    ELSE
    LET c == s.cursor
        control_byte ==
            c.control_bytes[c.encoded_shape.complete_control_bytes_len + 1]
        len == ((control_byte \div (IF i = 0 THEN 1 ELSE IF i = 1 THEN 4
                                    ELSE 16)) % 4) + 1
        d == decode_num_scalar(len, c.encoded_nums, c.encoded_bytes_read)
    IN  Bind([ok |-> d.ok,
              events |-> Append(s.events,
                  NumberEvent(d.num,
                              complete_quad_nums_decoded_this_invocation + i)),
              cursor |-> [c EXCEPT !.nums_decoded = @ + 1,
                                   !.encoded_bytes_read = @ + len]],
             LAMBDA t : DecodeLeftovers(t,
                 complete_quad_nums_decoded_this_invocation, i + 1))

\* the slices decode_sink takes of the cursor are in range
RangesOk(c) ==
    /\ c.control_bytes_read <= c.encoded_shape.complete_control_bytes_len
    /\ c.encoded_shape.complete_control_bytes_len <= Len(c.control_bytes)
    /\ c.encoded_bytes_read <= Len(c.encoded_nums)

\* mutant: the primary decoder is told the cursor's cumulative count
DecodePrimary_cumulative(c, D, complete_control_bytes_to_decode) ==
    Bind(decode_quads(D, RemainingControlBytes(c), RemainingEncodedNums(c),
                      complete_control_bytes_to_decode, c.nums_decoded),
         LAMBDA r :
            [ok |-> r.ok, events |-> r.events,
             nums_decoded |-> r.nums_decoded,
             cursor |-> [c EXCEPT
                 !.nums_decoded = @ + r.nums_decoded,
                 !.encoded_bytes_read = @ + r.bytes_read,
                 !.control_bytes_read = @ + r.nums_decoded \div 4]])

\* decode_sink, "decode complete quads": the call of D::decode_quads and the
\* cursor after the block
DecodePrimary(c, D, complete_control_bytes_to_decode) ==
    Bind(decode_quads(D, RemainingControlBytes(c), RemainingEncodedNums(c),
                      complete_control_bytes_to_decode, 0),
         LAMBDA r :
            [ok |-> r.ok, events |-> r.events,
             nums_decoded |-> r.nums_decoded,
             cursor |-> [c EXCEPT
                 !.nums_decoded = @ + r.nums_decoded,
                 !.encoded_bytes_read = @ + r.bytes_read,
                 !.control_bytes_read = @ + r.nums_decoded \div 4]])

\* mutant: the mop-up is given the whole budget of the call
DecodeMopUp_whole_budget(c, complete_control_bytes_to_decode, complete_quad_nums_decoded_this_invocation) ==
    Bind(Scalar_decode_quads(RemainingControlBytes(c),
             RemainingEncodedNums(c),
             complete_control_bytes_to_decode,
             complete_quad_nums_decoded_this_invocation),
         LAMBDA r :
            [ok |-> r.ok, events |-> r.events,
             nums_decoded |-> r.nums_decoded,
             cursor |-> [c EXCEPT
                 !.encoded_bytes_read = @ + r.bytes_read,
                 !.control_bytes_read = @ + r.nums_decoded \div 4,
                 !.nums_decoded = @ + r.nums_decoded]])

\* decode_sink, "handle any remaining full quads": the call of
\* Scalar::decode_quads and the cursor after the block
DecodeMopUp(c, complete_control_bytes_to_decode, complete_quad_nums_decoded_this_invocation) ==
    Bind(Scalar_decode_quads(RemainingControlBytes(c),
             RemainingEncodedNums(c),
             complete_control_bytes_to_decode
               - complete_quad_nums_decoded_this_invocation \div 4,
             complete_quad_nums_decoded_this_invocation),
         LAMBDA r :
            [ok |-> r.ok, events |-> r.events,
             nums_decoded |-> r.nums_decoded,
             cursor |-> [c EXCEPT
                 !.encoded_bytes_read = @ + r.bytes_read,
                 !.control_bytes_read = @ + r.nums_decoded \div 4,
                 !.nums_decoded = @ + r.nums_decoded]])

\* mutant: the leftovers are decoded again on a finished cursor
ShouldDecodeLeftovers_again(c, max_numbers_to_decode, complete_quad_nums_decoded_this_invocation) ==
    /\ max_numbers_to_decode - complete_quad_nums_decoded_this_invocation
         >= c.encoded_shape.leftover_numbers
    /\ c.control_bytes_read = c.encoded_shape.complete_control_bytes_len
    /\ c.encoded_shape.leftover_numbers > 0

\* mutant: the end of the stream is judged by the control bytes read
ShouldDecodeLeftovers_by_control_bytes(c, max_numbers_to_decode, complete_quad_nums_decoded_this_invocation) ==
    /\ max_numbers_to_decode - complete_quad_nums_decoded_this_invocation
         >= c.encoded_shape.leftover_numbers
    /\ c.control_bytes_read = c.encoded_shape.complete_control_bytes_len
    /\ c.encoded_shape.leftover_numbers > 0
    /\ c.control_bytes_read < c.encoded_shape.control_bytes_len

\* mutant: the leftovers are decoded only if they fill the budget exactly
ShouldDecodeLeftovers_exact(c, max_numbers_to_decode, complete_quad_nums_decoded_this_invocation) ==
    /\ max_numbers_to_decode - complete_quad_nums_decoded_this_invocation
         = c.encoded_shape.leftover_numbers
    /\ c.control_bytes_read = c.encoded_shape.complete_control_bytes_len
    /\ c.encoded_shape.leftover_numbers > 0
    /\ c.nums_decoded < c.total_nums

\* mutant: the leftovers are decoded whatever budget is left
ShouldDecodeLeftovers_no_budget(c, max_numbers_to_decode, complete_quad_nums_decoded_this_invocation) ==
    /\ c.control_bytes_read = c.encoded_shape.complete_control_bytes_len
    /\ c.encoded_shape.leftover_numbers > 0
    /\ c.nums_decoded < c.total_nums

\* decode_sink, the condition of "decode incomplete quad if we're at the end
\* and we were asked to decode all leftovers"
ShouldDecodeLeftovers(c, max_numbers_to_decode, complete_quad_nums_decoded_this_invocation) ==
    /\ max_numbers_to_decode - complete_quad_nums_decoded_this_invocation
         >= c.encoded_shape.leftover_numbers
    /\ c.control_bytes_read = c.encoded_shape.complete_control_bytes_len
    /\ c.encoded_shape.leftover_numbers > 0
    /\ c.nums_decoded < c.total_nums

\* decode_sink, the return: the leftovers' events follow those of the
\* complete quads; the count is the advance of nums_decoded
DecodeSinkReturn(c0, events, leftovers) ==
    [ok |-> leftovers.ok,
     cursor |-> leftovers.cursor,
     events |-> events \o leftovers.events,
     ret |-> leftovers.cursor.nums_decoded - c0.nums_decoded]

\* decode_sink after the scalar mop-up (more): the trailing partial quad
DecodeSinkLeftovers(c0, max_numbers_to_decode, primary, more) ==
    LET complete_quad_nums_decoded_this_invocation ==
            primary.nums_decoded + more.nums_decoded
        none == [ok |-> TRUE, events |-> << >>, cursor |-> more.cursor]
    IN  IF ~more.ok
             \/ max_numbers_to_decode
                  < complete_quad_nums_decoded_this_invocation
        THEN [ok |-> FALSE, cursor |-> more.cursor,
              events |-> primary.events \o more.events, ret |-> 0]
        ELSE Bind(IF ShouldDecodeLeftovers(more.cursor,
                         max_numbers_to_decode,
                         complete_quad_nums_decoded_this_invocation)
                  THEN DecodeLeftovers(none,
                          complete_quad_nums_decoded_this_invocation, 0)
                  ELSE none,
                  LAMBDA leftovers :
                     DecodeSinkReturn(c0, primary.events \o more.events,
                                      leftovers))

\* decode_sink after the primary decoder (primary): the scalar mop-up
DecodeSinkMopUp(c0, max_numbers_to_decode, primary) ==
    LET complete_control_bytes_to_decode == max_numbers_to_decode \div 4
    IN  IF ~primary.ok
        THEN [ok |-> FALSE, cursor |-> c0, events |-> << >>, ret |-> 0]
        ELSE IF ~RangesOk(primary.cursor)
                  \/ complete_control_bytes_to_decode
                       < primary.nums_decoded \div 4
        THEN [ok |-> FALSE, cursor |-> primary.cursor,
              events |-> primary.events, ret |-> 0]
        ELSE Bind(DecodeMopUp(primary.cursor,
                              complete_control_bytes_to_decode,
                              primary.nums_decoded),
                  LAMBDA more :
                     DecodeSinkLeftovers(c0, max_numbers_to_decode, primary,
                                         more))

\* mutant: the budget of the primary decoder is rounded up
decode_sink_round_up(c0, D, max_numbers_to_decode) ==
    IF ~RangesOk(c0)
    THEN [ok |-> FALSE, cursor |-> c0, events |-> << >>, ret |-> 0]
    ELSE Bind(DecodePrimary(c0, D, (max_numbers_to_decode + 3) \div 4),
              LAMBDA primary :
                 DecodeSinkMopUp(c0, max_numbers_to_decode, primary))

\* DecodeCursor::decode_sink::<D, S>(sink, max_numbers_to_decode):
\* [ok, cursor, events (the sink calls, in order), ret]
decode_sink(c0, D, max_numbers_to_decode) ==
    IF ~RangesOk(c0)
    THEN [ok |-> FALSE, cursor |-> c0, events |-> << >>, ret |-> 0]
    ELSE Bind(DecodePrimary(c0, D, max_numbers_to_decode \div 4),
              LAMBDA primary :
                 DecodeSinkMopUp(c0, max_numbers_to_decode, primary))

\* mutant: only the complete control bytes are counted
input_consumed_complete(c) ==
    c.encoded_shape.complete_control_bytes_len + c.encoded_bytes_read

\* DecodeCursor::input_consumed
input_consumed(c) == c.encoded_shape.control_bytes_len + c.encoded_bytes_read

\* mutant: more is expected while control bytes are left
has_more_control_bytes(c) ==
    c.control_bytes_read < c.encoded_shape.control_bytes_len

\* DecodeCursor::has_more
has_more(c) == c.nums_decoded < c.total_nums

\* ---------------------------------------------------------------- the sinks
\* the four u32 of a decoded register
QuadNums(quad) ==
    << read_u32(Slice(quad, 0, 4)), read_u32(Slice(quad, 4, 4)),
       read_u32(Slice(quad, 8, 4)), read_u32(Slice(quad, 12, 4)) >>

\* mutant: on_number stores four slots as on_quad does
SliceSinkApply_four_slots(out, e) ==
    IF e.on = "number"
    THEN [ok |-> e.index < Len(out.output),
          output |-> Store(out.output, e.index,
                           << e.num, U32(0, 0), U32(0, 0), U32(0, 0) >>)]
    ELSE [ok |-> e.index + 4 <= Len(out.output),
          output |-> IF e.index + 4 <= Len(out.output)
                     THEN Store(out.output, e.index, QuadNums(e.quad))
                     ELSE out.output]

\* SliceDecodeSink::on_number / on_quad applied to the wrapped slice
SliceSinkApply(out, e) ==
    IF e.on = "number"
    THEN [ok |-> e.index < Len(out.output),
          output |-> Store(out.output, e.index, << e.num >>)]
    ELSE [ok |-> e.index + 4 <= Len(out.output),
          output |-> IF e.index + 4 <= Len(out.output)
                     THEN Store(out.output, e.index, QuadNums(e.quad))
                     ELSE out.output]

RECURSIVE SliceSinkRun(_, _, _)
SliceSinkRun(out, events, i) ==
    IF i > Len(events) \/ ~out.ok THEN out
    ELSE Bind(SliceSinkApply(out, events[i]),
              LAMBDA o : SliceSinkRun(o, events, i + 1))

\* TupleSink of the tests: the (index, value) pairs in delivery order
RECURSIVE TupleSinkRun(_)
TupleSinkRun(events) ==
    IF events = << >> THEN << >>
    ELSE LET e == Head(events)
             n == QuadNums(e.quad)
         IN  (IF e.on = "number" THEN << << e.index, e.num >> >>
              ELSE << << e.index, n[1] >>, << e.index + 1, n[2] >>,
                      << e.index + 2, n[3] >>, << e.index + 3, n[4] >> >>)
               \o TupleSinkRun(Tail(events))

\* decode_slice, the return: r is what decode_sink returned, sink the
\* SliceDecodeSink after its calls
DecodeSliceReturn(r, sink) ==
    [ok |-> r.ok /\ sink.ok, cursor |-> r.cursor, events |-> r.events,
     ret |-> r.ret, output |-> sink.output]

\* decode_slice, the sink calls of decode_sink applied to output
DecodeSliceSink(r, output) ==
    Bind(SliceSinkRun([ok |-> TRUE, output |-> output], r.events, 1),
         LAMBDA sink : DecodeSliceReturn(r, sink))

\* DecodeCursor::decode_slice::<D>(output):
\* [ok, cursor, events, ret, output (the slice after the call)]
decode_slice(c, D, output) ==
    Bind(decode_sink(c, D, Len(output)),
         LAMBDA r : DecodeSliceSink(r, output))

\* mutant: what decode_slice returned is not compared with count
DecodeReturn_unchecked(input, count, r) ==
    IF ~r.ok \/ Len(input) < encoded_shape(count).control_bytes_len
    THEN [panic |-> SliceBoundsMsg, ret |-> 0, output |-> r.output]
    ELSE [panic |-> NoPanic, ret |-> input_consumed(r.cursor),
          output |-> r.output]

\* decode, the assertion on what decode_slice returned (r) and the return
DecodeReturn(input, count, r) ==
    IF ~r.ok \/ Len(input) < encoded_shape(count).control_bytes_len
    THEN [panic |-> SliceBoundsMsg, ret |-> 0, output |-> r.output]
    ELSE IF count # r.ret
    THEN [panic |-> OutputTooSmallMsg, ret |-> 0, output |-> r.output]
    ELSE [panic |-> NoPanic, ret |-> input_consumed(r.cursor),
          output |-> r.output]

\* decode::<D>(input, count, output): [panic, ret, output]
decode(D, input, count, output) ==
    DecodeReturn(input, count,
        decode_slice(DecodeCursor_new(input, count), D, output))

\* ------------------------------------------------------------------ inputs
\* values of every encoded length, with zero bytes below the top byte
Pool ==
    << U32(0, 0), U32(0, 256), U32(3, 0), U32(1792, 0),
       U32(0, 512), U32(4, 0), U32(65535, 65535), U32(0, 1),
       U32(0, 65535), U32(1, 1), U32(0, 255), U32(32768, 0),
       U32(255, 65535), U32(256, 0), U32(1, 0), U32(256, 256) >>

SingleBytePool == << U32(0, 255), U32(0, 0), U32(0, 1) >>

\* input of length n: pattern 0 has only one-byte values, pattern p >= 1
\* walks the pool with stride 2p-1
Gen(n, p) ==
    [i \in 1..n |->
        IF p = 0 THEN SingleBytePool[((i - 1) % 3) + 1]
        ELSE Pool[(((p - 1) + (i - 1) * (2 * p - 1)) % 16) + 1]]

Inputs == { Gen(n, p) : n \in 0..MaxLen, p \in 0..MaxPattern }

\* fill of the encode output before the call (tests: 0xFF) and of the decode
\* output (tests: 54321)
GarbageByte == 255
GarbageNum == U32(0, 54321)

\* "make output 5x as long as input"
FreshEncoded(n) == [i \in 1..(5 * n) |-> GarbageByte]
FreshDecoded(n) == [i \in 1..n |-> GarbageNum]

\* the caller's decode buffer for a call on &mut decoded[0..n]
\* (tests: decoded.resize(count + extra_slots, garbage)), and the buffer once
\* the call has left slice in its first n slots
CallerBuffer(n) == FreshDecoded(n + ExtraSlots)
Rejoin(buffer, n, slice) == slice \o Slice(buffer, n, Len(buffer) - n)

\* -------------------------------------------------------------------- state
VARIABLES
    nums,           \* the input of encode
    encoder,        \* the Encoder used
    encoded,        \* the output buffer of encode
    encoded_len,    \* what encode returned
    pc,             \* "start", "encoded", "kernel", "cursor", "returned",
                    \* "decoded", "panicked"
    cursor,         \* the DecodeCursor
    last,           \* the last call on the cursor (or of decode) and its result
    consumed,       \* numbers delivered or skipped by the calls so far
    skipped,        \* numbers skipped by the calls so far
    decoded_accum,  \* the accumulator of the chunked-decode tests, which never
                    \* skip: the numbers delivered so far; emptied by a skip
    panic           \* message of the panic that ended the run

vars == << nums, encoder, encoded, encoded_len, pc, cursor, last, consumed,
           skipped, decoded_accum, panic >>

NoCursor == DecodeCursor_new(<< >>, 0)

\* the counters of a cursor
Counters(c) ==
    [nums_decoded |-> c.nums_decoded,
     control_bytes_read |-> c.control_bytes_read,
     encoded_bytes_read |-> c.encoded_bytes_read]

NoCall ==
    [op |-> "none", decoder |-> "none", arg |-> 0, ret |-> 0,
     events |-> << >>, output |-> << >>, before |-> Counters(NoCursor),
     position |-> 0, bytes_read |-> 0]

Init ==
    /\ nums \in Inputs
    /\ encoder = "none"
    /\ encoded = FreshEncoded(Len(nums))
    /\ encoded_len = 0
    /\ pc = "start"
    /\ cursor = NoCursor
    /\ last = NoCall
    /\ consumed = 0
    /\ skipped = 0
    /\ decoded_accum = << >>
    /\ panic = NoPanic

\* the values a sequence of sink calls delivers, in order
RECURSIVE Delivered(_)
Delivered(events) ==
    IF events = << >> THEN << >>
    ELSE (IF Head(events).on = "number" THEN << Head(events).num >>
          ELSE QuadNums(Head(events).quad))
           \o Delivered(Tail(events))

\* encode::<E>(&nums, &mut encoded)
Encode(E) ==
    /\ pc = "start"
    /\ \E r \in { encode_transformed(E, nums, encoded) } :
           /\ encoded' = r.output
           /\ encoded_len' = r.ret
           /\ pc' = IF r.ok THEN "encoded" ELSE "panicked"
           /\ panic' = IF r.ok THEN NoPanic ELSE SliceBoundsMsg
    /\ encoder' = E
    /\ UNCHANGED << nums, cursor, last, consumed, skipped, decoded_accum >>

\* encode::<E>(&nums, &mut encoded[0..cap]): an output region chosen by the
\* caller, up to the worst-case length control_bytes_len + 4 * N
EncodeInto(E, cap) ==
    /\ pc = "start"
    /\ \E r \in { encode_transformed(E, nums, Slice(encoded, 0, cap)) } :
           /\ encoded' = Rejoin(encoded, cap, r.output)
           /\ encoded_len' = r.ret
           /\ pc' = IF r.ok THEN "encoded" ELSE "panicked"
           /\ panic' = IF r.ok THEN NoPanic ELSE SliceBoundsMsg
    /\ encoder' = E
    /\ last' = [NoCall EXCEPT !.op = "encode", !.arg = cap]
    /\ UNCHANGED << nums, cursor, consumed, skipped, decoded_accum >>

\* E::encode_quads(&nums[0..4 * control_bytes_len], control_bytes, num_bytes)
\* called directly, as the kernel test does, with (control_bytes, num_bytes)
\* = encoded.split_at_mut(control_bytes_len)
EncodeQuads(E, control_bytes_len) ==
    /\ pc = "start"
    /\ \E r \in { encode_quads(E, Slice(nums, 0, 4 * control_bytes_len),
                       Slice(encoded, 0, control_bytes_len),
                       Slice(encoded, control_bytes_len,
                             Len(encoded) - control_bytes_len)) } :
           /\ encoded' = r.control_bytes \o r.encoded_nums
           /\ pc' = IF r.ok THEN "kernel" ELSE "panicked"
           /\ panic' = IF r.ok THEN NoPanic ELSE SliceBoundsMsg
           /\ last' = [NoCall EXCEPT !.op = "encode_quads",
                                     !.arg = control_bytes_len,
                                     !.ret = r.nums_encoded,
                                     !.bytes_read = r.bytes_written]
    /\ encoder' = E
    /\ UNCHANGED << nums, encoded_len, cursor, consumed, skipped,
                    decoded_accum >>

\* the control byte counts tried by EncodeQuads
ControlByteLens == 0..(Len(nums) \div 4)

\* a stream that differs from input only in the unused bit pairs (lanes
\* count mod 4 .. 3) of its final control byte, which are all set
WithUnusedBits(input, count) ==
    LET last_control_byte == encoded_shape(count).control_bytes_len
        low == Pow4(count % 4)
    IN  IF count % 4 = 0 \/ Len(input) < last_control_byte THEN input
        ELSE Store(input, last_control_byte - 1,
                   << (input[last_control_byte] % low) + (256 - low) >>)

\* DecodeCursor::new on such a stream
NewCursorUnusedBits ==
    /\ pc = "encoded"
    /\ Len(nums) % 4 # 0
    /\ cursor' = DecodeCursor_new(
                     WithUnusedBits(Slice(encoded, 0, encoded_len), Len(nums)),
                     Len(nums))
    /\ pc' = "cursor"
    /\ last' = NoCall
    /\ UNCHANGED << nums, encoder, encoded, encoded_len, consumed, skipped,
                    decoded_accum, panic >>

\* the output lengths tried by EncodeInto
WorstCaseLen == encoded_shape(Len(nums)).control_bytes_len + 4 * Len(nums)
OutputLens == 0..Min(WorstCaseLen, Len(encoded))

\* DecodeCursor::new(&encoded[0..encoded_len], nums.len())
NewCursor ==
    /\ pc = "encoded"
    /\ cursor' = DecodeCursor_new(Slice(encoded, 0, encoded_len), Len(nums))
    /\ pc' = "cursor"
    /\ last' = NoCall
    /\ UNCHANGED << nums, encoder, encoded, encoded_len, consumed, skipped,
                    decoded_accum, panic >>

\* decode::<D>(&encoded[0..encoded_len], nums.len(), &mut decoded[0..n])
Decode(D, n) ==
    /\ pc = "encoded"
    /\ \E r \in { decode(D, Slice(encoded, 0, encoded_len), Len(nums),
                         Slice(CallerBuffer(n), 0, n)) } :
           /\ last' = [NoCall EXCEPT !.op = "decode", !.decoder = D,
                                     !.arg = n, !.ret = r.ret,
                                     !.output =
                                         Rejoin(CallerBuffer(n), n, r.output)]
           /\ panic' = r.panic
           /\ pc' = IF r.panic = NoPanic THEN "decoded" ELSE "panicked"
    /\ UNCHANGED << nums, encoder, encoded, encoded_len, cursor, consumed,
                    skipped, decoded_accum >>

\* cursor.skip(to_skip)
Skip(to_skip) ==
    /\ pc = "cursor"
    /\ \E r \in { skip(cursor, to_skip) } :
           /\ cursor' = r.cursor
           /\ panic' = r.panic
           /\ pc' = IF r.panic = NoPanic THEN "returned" ELSE "panicked"
           /\ last' = [NoCall EXCEPT !.op = "skip", !.arg = to_skip,
                                     !.before = Counters(cursor),
                                     !.position = consumed]
           /\ consumed' = IF r.panic = NoPanic THEN consumed + to_skip
                          ELSE consumed
           /\ skipped' = IF r.panic = NoPanic THEN skipped + to_skip
                         ELSE skipped
           /\ decoded_accum' = IF r.panic = NoPanic /\ to_skip > 0 THEN << >>
                               ELSE decoded_accum
    /\ UNCHANGED << nums, encoder, encoded, encoded_len >>

\* cursor.decode_sink::<D, TupleSink>(&mut sink, max_numbers_to_decode)
DecodeSink(D, max_numbers_to_decode) ==
    /\ pc = "cursor"
    /\ \E r \in { decode_sink(cursor, D, max_numbers_to_decode) } :
           /\ cursor' = r.cursor
           /\ panic' = IF r.ok THEN NoPanic ELSE SliceBoundsMsg
           /\ pc' = IF r.ok THEN "returned" ELSE "panicked"
           /\ last' = [op |-> "decode_sink", decoder |-> D,
                       arg |-> max_numbers_to_decode, ret |-> r.ret,
                       events |-> r.events, output |-> << >>,
                       before |-> Counters(cursor), position |-> consumed,
                       bytes_read |-> r.cursor.encoded_bytes_read
                                        - cursor.encoded_bytes_read]
           /\ consumed' = consumed + r.ret
           /\ decoded_accum' = IF skipped > 0 THEN << >>
                               ELSE decoded_accum \o Delivered(r.events)
    /\ UNCHANGED << nums, encoder, encoded, encoded_len, skipped >>

\* cursor.decode_slice::<D>(&mut decoded[0..n])
DecodeSlice(D, n) ==
    /\ pc = "cursor"
    /\ \E r \in { decode_slice(cursor, D, Slice(CallerBuffer(n), 0, n)) } :
           /\ cursor' = r.cursor
           /\ panic' = IF r.ok THEN NoPanic ELSE SliceBoundsMsg
           /\ pc' = IF r.ok THEN "returned" ELSE "panicked"
           /\ last' = [op |-> "decode_slice", decoder |-> D,
                       arg |-> n, ret |-> r.ret,
                       events |-> r.events,
                       output |-> Rejoin(CallerBuffer(n), n, r.output),
                       before |-> Counters(cursor), position |-> consumed,
                       bytes_read |-> r.cursor.encoded_bytes_read
                                        - cursor.encoded_bytes_read]
           /\ consumed' = consumed + r.ret
           /\ decoded_accum' = IF skipped > 0 THEN << >>
                               ELSE decoded_accum \o Slice(r.output, 0, r.ret)
    /\ UNCHANGED << nums, encoder, encoded, encoded_len, skipped >>

\* D::decode_quads(control_bytes, encoded_nums, control_bytes_to_decode, 0,
\* sink) called directly, as the kernel tests do, on the complete control
\* bytes and the payload the cursor has not read; the cursor is not involved
DecodeQuads(D, control_bytes_to_decode) ==
    /\ pc = "cursor"
    /\ \E r \in { decode_quads(D, RemainingControlBytes(cursor),
                               RemainingEncodedNums(cursor),
                               control_bytes_to_decode, 0) } :
           /\ panic' = IF r.ok THEN NoPanic ELSE SliceBoundsMsg
           /\ pc' = IF r.ok THEN "returned" ELSE "panicked"
           /\ last' = [op |-> "decode_quads", decoder |-> D,
                       arg |-> control_bytes_to_decode,
                       ret |-> r.nums_decoded, events |-> r.events,
                       output |-> << >>, before |-> Counters(cursor),
                       position |-> consumed, bytes_read |-> r.bytes_read]
    /\ UNCHANGED << nums, encoder, encoded, encoded_len, cursor, consumed,
                    skipped, decoded_accum >>

\* the budgets tried by DecodeQuads in a state
Budgets == 0..(Len(RemainingControlBytes(cursor)) + ExtraRequest)

\* the caller takes the result of the call and prepares the next one
\* (tests: decoded.clear(); decoded.resize(count + extra_slots, garbage))
Continue ==
    /\ pc = "returned"
    /\ pc' = "cursor"
    /\ last' = NoCall
    /\ UNCHANGED << nums, encoder, encoded, encoded_len, cursor, consumed,
                    skipped, decoded_accum, panic >>

\* sizes of the requests and skips tried in a state
Requests == 0..(Len(nums) - consumed + ExtraRequest)
SkipArgs == 0..(Len(nums) - consumed + ExtraSkip)

Next ==
    \/ \E E \in Encoders : Encode(E)
    \/ \E E \in Encoders, cap \in OutputLens : EncodeInto(E, cap)
    \/ \E E \in Encoders, c \in ControlByteLens : EncodeQuads(E, c)
    \/ NewCursor
    \/ NewCursorUnusedBits
    \/ \E D \in Decoders, n \in Requests : Decode(D, n)
    \/ \E k \in SkipArgs : Skip(k)
    \/ \E D \in Decoders, m \in Requests : DecodeSink(D, m)
    \/ \E D \in Decoders, n \in Requests : DecodeSlice(D, n)
    \/ \E D \in Decoders, b \in Budgets : DecodeQuads(D, b)
    \/ Continue

Spec == Init /\ [][Next]_vars

\* ------------------------------------------------------- the decode loop
\* while cursor.has_more() { cursor.decode_slice::<D>(&mut decoded[0..n]) }
\* with one decoder and one buffer length, entered in any state of the cursor

\* the caller fixes the decoder and the buffer length, makes its cursor and
\* enters the loop: while cursor.has_more() { ... }
EnterLoop(D, decode_len) ==
    /\ pc = "cursor"
    /\ pc' = "loop"
    /\ last' = [NoCall EXCEPT !.op = "loop", !.decoder = D,
                              !.arg = decode_len]
    /\ UNCHANGED << nums, encoder, encoded, encoded_len, cursor, consumed,
                    skipped, decoded_accum, panic >>

\* one iteration of the loop
LoopDecodeSlice(D, n) ==
    /\ pc = "loop"
    /\ has_more(cursor)
    /\ \E r \in { decode_slice(cursor, D, Slice(CallerBuffer(n), 0, n)) } :
           /\ cursor' = r.cursor
           /\ panic' = IF r.ok THEN NoPanic ELSE SliceBoundsMsg
           /\ pc' = IF r.ok THEN "loop" ELSE "panicked"
           /\ last' = [op |-> "decode_slice", decoder |-> D,
                       arg |-> n, ret |-> r.ret,
                       events |-> r.events,
                       output |-> Rejoin(CallerBuffer(n), n, r.output),
                       before |-> Counters(cursor), position |-> consumed,
                       bytes_read |-> r.cursor.encoded_bytes_read
                                        - cursor.encoded_bytes_read]
           /\ consumed' = consumed + r.ret
           /\ decoded_accum' = IF skipped > 0 THEN << >>
                               ELSE decoded_accum \o Slice(r.output, 0, r.ret)
    /\ UNCHANGED << nums, encoder, encoded, encoded_len, skipped >>

\* the buffer lengths of the loop: cmp::min(count, QUAD_LEN)..(count + 1)
LoopLens ==
    Min(Len(nums), 4)..Min(Len(nums), 4 + ExtraRequest)

\* the loop keeps its decoder and its buffer length
LoopStep == LoopDecodeSlice(last.decoder, last.arg)

LoopNext ==
    \/ Encode("Scalar")
    \/ NewCursor
    \/ \E k \in SkipArgs : Skip(k)
    \/ \E D \in Decoders, m \in Requests : DecodeSink(D, m)
    \/ Continue
    \/ \E D \in Decoders, n \in LoopLens : EnterLoop(D, n)
    \/ LoopStep

\* the loop runs as long as its condition holds
LoopSpec == Init /\ [][LoopNext]_vars /\ WF_vars(LoopStep)

\* ------------------------------------------------ the routines on one quad
\* values of every encoded length and of every bytemap the SSE4.1 kernel
\* distinguishes (zero and non-zero bytes below the top byte)
QuadPool ==
    << U32(0, 0), U32(0, 255), U32(0, 256), U32(0, 65535),
       U32(1, 0), U32(1, 256), U32(255, 65535), U32(256, 0),
       U32(256, 256), U32(257, 0), U32(32768, 0), U32(65535, 65535) >>

Quads ==
    { << QuadPool[a], QuadPool[b], QuadPool[c], QuadPool[d] >> :
          a \in 1..Len(QuadPool), b \in 1..Len(QuadPool),
          c \in 1..Len(QuadPool), d \in 1..Len(QuadPool) }

KernelInit ==
    /\ nums \in Quads
    /\ encoder = "none"
    /\ encoded = FreshEncoded(Len(nums))
    /\ encoded_len = 0
    /\ pc = "start"
    /\ cursor = NoCursor
    /\ last = NoCall
    /\ consumed = 0
    /\ skipped = 0
    /\ decoded_accum = << >>
    /\ panic = NoPanic

\* the length arithmetic of one iteration of Sse41::encode_quads on the quad
CodeAndLength ==
    /\ pc = "start"
    /\ \E bytes \in { code_and_length(QuadBytes(nums, 0)) } :
           last' = [NoCall EXCEPT
                       !.op = "code_and_length",
                       !.output = bytes,
                       !.ret = ExtractCodeAndLength(bytes).code,
                       !.bytes_read = ExtractCodeAndLength(bytes).length]
    /\ encoder' = "Sse41"
    /\ pc' = "kernel"
    /\ UNCHANGED << nums, encoded, encoded_len, cursor, consumed, skipped,
                    decoded_accum, panic >>

\* len = encode_num_scalar(nums[i], &mut encoded)
EncodeNumScalar(i) ==
    /\ pc = "start"
    /\ \E r \in { encode_num_scalar(nums[i], encoded, 0) } :
           /\ encoded' = r.output
           /\ encoded_len' = r.len
           /\ pc' = IF r.ok THEN "kernel" ELSE "panicked"
           /\ panic' = IF r.ok THEN NoPanic ELSE SliceBoundsMsg
           /\ last' = [NoCall EXCEPT !.op = "encode_num_scalar", !.arg = i,
                                     !.ret = r.len]
    /\ encoder' = "Scalar"
    /\ UNCHANGED << nums, cursor, consumed, skipped, decoded_accum >>

\* decoded = decode_num_scalar(len, &encoded)
DecodeNumScalar ==
    /\ pc = "kernel"
    /\ last.op = "encode_num_scalar"
    /\ \E d \in { decode_num_scalar(encoded_len, encoded, 0) } :
           /\ pc' = IF d.ok THEN "decoded" ELSE "panicked"
           /\ panic' = IF d.ok THEN NoPanic ELSE SliceBoundsMsg
           /\ last' = [last EXCEPT !.op = "decode_num_scalar",
                                   !.output = << d.num >>]
    /\ UNCHANGED << nums, encoder, encoded, encoded_len, cursor, consumed,
                    skipped, decoded_accum >>

KernelNext ==
    \/ CodeAndLength
    \/ \E i \in 1..Len(nums) : EncodeNumScalar(i)
    \/ DecodeNumScalar

KernelSpec == KernelInit /\ [][KernelNext]_vars

\* ============================================================== properties
\* reference notions of the format, stated on values

\* number of bytes of v once its leading zero bytes are dropped (at least 1)
ByteLen(v) ==
    IF v.hi >= 256 THEN 4 ELSE IF v.hi > 0 THEN 3
    ELSE IF v.lo >= 256 THEN 2 ELSE 1

\* byte k (0 = least significant) of v
ByteAt(v, k) ==
    IF k = 0 THEN v.lo % 256 ELSE IF k = 1 THEN v.lo \div 256
    ELSE IF k = 2 THEN v.hi % 256 ELSE v.hi \div 256

\* the low ByteLen(v) bytes of v, least significant first
LowBytes(v) == SubSeq([k \in 1..4 |-> ByteAt(v, k - 1)], 1, ByteLen(v))

\* concatenation of LowBytes over X[from+1 .. to]
RECURSIVE Payload(_, _, _)
Payload(X, from, to) ==
    IF from >= to THEN << >>
    ELSE LowBytes(X[from + 1]) \o Payload(X, from + 1, to)

\* total encoded length of the first k numbers of X
RECURSIVE SumLen(_, _)
SumLen(X, k) == IF k = 0 THEN 0 ELSE SumLen(X, k - 1) + ByteLen(X[k])

CeilDiv4(n) == (n + 3) \div 4

\* bit pair i of a control byte
BitPair(b, i) == (b \div Pow4(i)) % 4

N == Len(nums)
Encoded == pc \in {"encoded", "cursor", "returned", "decoded"}
CursorLive == pc \in {"cursor", "returned"}
DecodeCall == last.op \in {"decode_sink", "decode_slice"}

\* C1: round trip.  A top-level decode of encode's output with the right count
\* and an output of at least N slots returns normally and leaves
\* output[0..N] equal to the input, for every encoder and decoder.
C1_RoundTrip ==
    (last.op = "decode" /\ last.arg >= N)
        => /\ pc = "decoded"
           /\ SubSeq(last.output, 1, N) = nums

C1_Witness ==
    /\ pc = "decoded"
    /\ encoder = "Sse41"
    /\ last.decoder = "Ssse3"
    /\ N = 19
    /\ last.arg > N
    /\ SubSeq(last.output, 1, N) = nums

ReferenceInput == Gen(6, 1)
ReferenceBytes ==
    << 228, 9, 0, 0, 1, 0, 0, 3, 0, 0, 0, 7, 0, 2, 0, 0, 4 >>

\* C2: binary format.  encode writes ceil(N/4) control bytes, then at once the
\* payload; bit pair i of control byte j is len(X[4j+i]) - 1; the payload is
\* the concatenation of the low len(X[k]) little-endian bytes of each X[k];
\* the reference input encodes to the 17 reference bytes.
C2_BinaryFormat ==
    Encoded =>
        /\ \A k \in 0..(N - 1) :
              BitPair(encoded[(k \div 4) + 1], k % 4) = ByteLen(nums[k + 1]) - 1
        /\ LET payload == Payload(nums, 0, N)
           IN  SubSeq(encoded, CeilDiv4(N) + 1, CeilDiv4(N) + Len(payload))
                 = payload
        /\ nums = ReferenceInput
             => encoded_len = 17 /\ SubSeq(encoded, 1, 17) = ReferenceBytes

C2_Witness ==
    /\ pc = "encoded"
    /\ nums = ReferenceInput
    /\ nums = << U32(0, 0), U32(0, 256), U32(3, 0), U32(1792, 0),
                 U32(0, 512), U32(4, 0) >>
    /\ SubSeq(encoded, 1, encoded_len) = ReferenceBytes

\* C3: encoded length.  encode returns ceil(N/4) + the sum of len(X[i]); 0 for
\* the empty input, N + ceil(N/4) when every value fits in one byte.
C3_EncodedLength ==
    Encoded =>
        /\ encoded_len = CeilDiv4(N) + SumLen(nums, N)
        /\ N = 0 => encoded_len = 0
        /\ (\A i \in 1..N : nums[i].hi = 0 /\ nums[i].lo < 256)
              => encoded_len = N + CeilDiv4(N)

C3_Witness ==
    /\ pc = "encoded"
    /\ N = 18
    /\ \E i \in 1..N : ByteLen(nums[i]) = 3
    /\ encoded_len = 5 + SumLen(nums, N)
    /\ encoded_len > N + 5

\* C4: ordering / cursor equivalence.  A decode call that returns n delivers
\* exactly X[p..p+n] in input order, p being the count of numbers delivered or
\* skipped before the call; a run without skips that consumes the whole cursor
\* has delivered exactly X.
C4_Ordering ==
    /\ DecodeCall =>
          /\ pc = "returned"
          /\ last.position + last.ret <= N
          /\ Delivered(last.events)
               = SubSeq(nums, last.position + 1, last.position + last.ret)
          /\ last.op = "decode_slice" =>
                SubSeq(last.output, 1, last.ret)
                  = SubSeq(nums, last.position + 1, last.position + last.ret)
    /\ (CursorLive /\ ~has_more(cursor) /\ skipped = 0)
          => decoded_accum = nums

C4_Witness ==
    /\ pc = "returned"
    /\ last.op = "decode_slice"
    /\ last.decoder = "Ssse3"
    /\ skipped = 4
    /\ last.position = 12
    /\ last.arg = 6
    /\ last.ret = 4
    /\ SubSeq(last.output, 1, 4) = SubSeq(nums, 13, 16)
    /\ has_more(cursor)

\* C5: return-count law.  With R numbers not yet delivered or skipped, a decode
\* call asked for m returns R when m >= R and 4 * floor(m / 4) when m < R; if
\* has_more() still holds after a decode_slice, the shortfall is at most 3.
C5_ReturnCount ==
    DecodeCall =>
        LET R == N - last.position
            m == last.arg
        IN  /\ pc = "returned"
            /\ last.ret = IF m >= R THEN R ELSE 4 * (m \div 4)
            /\ (m < R) => (last.ret % 4 = 0)
            /\ (last.op = "decode_slice" /\ has_more(cursor))
                  => m - last.ret <= 3

C5_Witness ==
    /\ pc = "returned"
    /\ DecodeCall
    /\ last.position = 8
    /\ N = 19
    /\ last.arg = 7
    /\ last.ret = 4
    /\ has_more(cursor)

\* numbers of the trailing partial quad delivered by the last call
PartialNow ==
    Max(0, last.position + Len(Delivered(last.events)) - 4 * (N \div 4))
      - Max(0, last.position - 4 * (N \div 4))

\* numbers of complete quads delivered by the last call
CompleteNow == Len(Delivered(last.events)) - PartialNow

\* C6: the trailing partial quad is delivered atomically.  One call delivers
\* all N mod 4 of its numbers (by on_number) or none; it delivers them only
\* when every complete quad is consumed and the budget left after the complete
\* quads of this call is at least N mod 4; when it does not, the payload
\* position stays at or before the partial quad.
C6_PartialQuadAtomic ==
    DecodeCall =>
        /\ PartialNow \in {0, N % 4}
        /\ PartialNow > 0 =>
              /\ cursor.control_bytes_read = N \div 4
              /\ last.arg - CompleteNow >= N % 4
              /\ \A i \in 1..PartialNow :
                    last.events[Len(last.events) + 1 - i].on = "number"
        /\ (PartialNow = 0 /\ has_more(cursor)) =>
              cursor.encoded_bytes_read <= SumLen(nums, 4 * (N \div 4))

C6_Witness ==
    /\ pc = "returned"
    /\ DecodeCall
    /\ N = 19
    /\ last.position = 8
    /\ last.arg = 10
    /\ last.ret = 8
    /\ PartialNow = 0
    /\ cursor.control_bytes_read = 4
    /\ cursor.encoded_bytes_read = SumLen(nums, 16)
    /\ has_more(cursor)

\* C7: skip correctness.  On a cursor on which only skips (s numbers in all)
\* came before, decode_slice into a buffer of at least N - s slots returns
\* N - s, yields X[s..] and leaves has_more() false.
C7_SkipThenDecode ==
    (last.op = "decode_slice" /\ last.position = skipped
       /\ last.arg >= N - skipped)
        => /\ pc = "returned"
           /\ last.ret = N - skipped
           /\ SubSeq(last.output, 1, last.ret) = SubSeq(nums, skipped + 1, N)
           /\ ~has_more(cursor)

C7_Witness ==
    /\ pc = "returned"
    /\ last.op = "decode_slice"
    /\ last.decoder = "Ssse3"
    /\ N = 21
    /\ skipped = 4
    /\ last.position = 4
    /\ last.ret = 17
    /\ SubSeq(last.output, 1, 17) = SubSeq(nums, 5, 21)
    /\ ~has_more(cursor)

SkipIllegal4 == last.arg % 4 # 0
SkipIllegalEnd ==
    last.before.control_bytes_read + last.arg \div 4 > N \div 4

\* C8 as stated: skip(k) with k mod 4 # 0 fails with "Must be a multiple of
\* 4", skip(k) with control_bytes_read + k/4 > complete_control_bytes_len
\* fails with "Can't skip past the end of complete control bytes", and in both
\* cases no counter is modified.
C8_AsStated ==
    last.op = "skip" =>
        /\ SkipIllegal4 => (pc = "panicked" /\ panic = MultipleOf4Msg)
        /\ SkipIllegalEnd => (pc = "panicked" /\ panic = SkipPastEndMsg)
        /\ (SkipIllegal4 \/ SkipIllegalEnd) => Counters(cursor) = last.before

\* C8, amended: skip(k) with k mod 4 # 0 fails with "Must be a multiple of 4";
\* skip(k) with k a multiple of 4 and control_bytes_read + k/4 >
\* complete_control_bytes_len fails with "Can't skip past the end of complete
\* control bytes"; in both cases no counter is modified.
C8_IllegalSkip ==
    last.op = "skip" =>
        /\ SkipIllegal4 => (pc = "panicked" /\ panic = MultipleOf4Msg)
        /\ (~SkipIllegal4 /\ SkipIllegalEnd)
              => (pc = "panicked" /\ panic = SkipPastEndMsg)
        /\ (SkipIllegal4 \/ SkipIllegalEnd) => Counters(cursor) = last.before

C8_Witness ==
    /\ pc = "panicked"
    /\ last.op = "skip"
    /\ panic = SkipPastEndMsg
    /\ last.arg = 8
    /\ last.before.control_bytes_read = 3
    /\ N = 19
    /\ Counters(cursor) = last.before
    /\ cursor.nums_decoded = 12

\* C9: sink indices restart at every call.  The indices a decode_sink call
\* hands to the sink (index of on_number, base_index .. base_index + 3 of
\* on_quad) are 0, 1, ..., n-1 in delivery order, n being what it returns.
C9_SinkIndices ==
    DecodeCall =>
        LET t == TupleSinkRun(last.events)
        IN  /\ Len(t) = last.ret
            /\ \A i \in 1..Len(t) : t[i][1] = i - 1

C9_Witness ==
    /\ pc = "returned"
    /\ last.op = "decode_sink"
    /\ last.decoder = "Ssse3"
    /\ last.position = 4
    /\ last.ret = 17
    /\ Len(last.events) = 14
    /\ last.events[1].on = "quad"
    /\ last.events[2].on = "number"
    /\ last.events[14].index = 16

\* C10: input_consumed() is always ceil(N/4) plus the payload bytes of the
\* numbers delivered or skipped so far; once has_more() is false it is what
\* encode returned; top-level decode returns that value.
C10_InputConsumed ==
    /\ CursorLive =>
          /\ input_consumed(cursor) = CeilDiv4(N) + SumLen(nums, consumed)
          /\ ~has_more(cursor) => input_consumed(cursor) = encoded_len
    /\ pc = "decoded" => last.ret = encoded_len

C10_Witness ==
    /\ pc = "returned"
    /\ last.op = "decode_sink"
    /\ N = 18
    /\ skipped = 8
    /\ consumed = N
    /\ last.position = 12
    /\ ~has_more(cursor)
    /\ input_consumed(cursor) = encoded_len
    /\ encoded_len > 5

\* C11: has_more() is true exactly when fewer than N numbers have been
\* delivered or skipped; after skipping all N numbers of a stream whose N is a
\* multiple of 4, has_more() is false and a decode_slice returns 0 and writes
\* nothing.
C11_HasMore ==
    /\ CursorLive => (has_more(cursor) <=> consumed < N)
    /\ (last.op = "decode_slice" /\ skipped = N /\ N % 4 = 0)
          => /\ pc = "returned"
             /\ ~has_more(cursor)
             /\ last.ret = 0
             /\ last.events = << >>
             /\ last.output = CallerBuffer(last.arg)

C11_Witness ==
    /\ pc = "returned"
    /\ last.op = "decode_slice"
    /\ N = 20
    /\ skipped = 20
    /\ last.before.control_bytes_read = 5
    /\ last.arg = 1
    /\ last.ret = 0
    /\ last.output = CallerBuffer(1)
    /\ ~has_more(cursor)

\* C12: encode non-clobber.  After encode (Scalar or Sse41, whose kernel stores
\* 16 bytes per quad) returns w, every byte of the output buffer at index >= w
\* holds the value it had before the call.
C12_EncodeNonClobber ==
    Encoded =>
        /\ Len(encoded) = Len(FreshEncoded(N))
        /\ \A i \in (encoded_len + 1)..Len(encoded) :
              encoded[i] = FreshEncoded(N)[i]

C12_Witness ==
    /\ pc = "encoded"
    /\ encoder = "Sse41"
    /\ N = 21
    /\ nums[1] = U32(0, 255)
    /\ encoded_len = 27
    /\ encoded[27] = 1
    /\ encoded[28] = GarbageByte
    /\ Len(encoded) = 105

\* C13: decode non-clobber.  A decode_slice call that returns n writes only
\* output[0..n]: every slot of the caller's buffer at index >= n, inside or
\* beyond the slice passed in, keeps its prior value, for every decoder;
\* top-level decode leaves every slot at index >= count untouched.
C13_DecodeNonClobber ==
    /\ (last.op = "decode_slice" /\ pc = "returned") =>
          /\ Len(last.output) = Len(CallerBuffer(last.arg))
          /\ \A i \in (last.ret + 1)..Len(last.output) :
                last.output[i] = CallerBuffer(last.arg)[i]
    /\ pc = "decoded" =>
          /\ Len(last.output) = Len(CallerBuffer(last.arg))
          /\ \A i \in (N + 1)..Len(last.output) :
                last.output[i] = CallerBuffer(last.arg)[i]

C13_Witness ==
    /\ pc = "returned"
    /\ last.op = "decode_slice"
    /\ last.decoder = "Ssse3"
    /\ N = 19
    /\ last.position = 0
    /\ last.arg = 18
    /\ last.ret = 16
    /\ last.events[1].on = "quad"
    /\ last.output[16] = nums[16]
    /\ last.output[17] = GarbageNum
    /\ last.output[18] = GarbageNum
    /\ last.output[19] = GarbageNum

\* C14: top-level decode of a well-formed encoding of N numbers returns
\* normally exactly when the output has at least N slots; with fewer slots it
\* fails with "output buffer was not large enough" and nothing outside the
\* output passed in has been written.
C14_DecodeAssert ==
    last.op = "decode" =>
        /\ (pc = "decoded") <=> (last.arg >= N)
        /\ last.arg >= N => panic = NoPanic
        /\ last.arg < N =>
              /\ pc = "panicked"
              /\ panic = OutputTooSmallMsg
              /\ Len(last.output) = Len(CallerBuffer(last.arg))
              /\ \A i \in (last.arg + 1)..Len(last.output) :
                    last.output[i] = CallerBuffer(last.arg)[i]

C14_Witness ==
    /\ pc = "panicked"
    /\ last.op = "decode"
    /\ last.decoder = "Ssse3"
    /\ N = 21
    /\ last.arg = 20
    /\ panic = OutputTooSmallMsg
    /\ last.output[20] = nums[20]
    /\ last.output[21] = GarbageNum

\* length of the encoding of nums
EncodedLenOfNums == CeilDiv4(N) + SumLen(nums, N)

\* C15 as stated: encode into an output region shorter than
\* control_bytes_len + 4 * N fails by an out-of-range access instead of
\* returning a byte count.
C15_AsStated ==
    (last.op = "encode" /\ last.arg < WorstCaseLen)
        => (pc = "panicked" /\ panic = SliceBoundsMsg)

\* C15, amended: encode into an output region shorter than the encoding of the
\* input fails by an out-of-range access instead of returning a byte count;
\* into a region at least that long (control_bytes_len + 4 * N always is) it
\* returns the length of the encoding.
C15_UndersizedEncode ==
    last.op = "encode" =>
        /\ last.arg < EncodedLenOfNums
              => (pc = "panicked" /\ panic = SliceBoundsMsg)
        /\ last.arg >= EncodedLenOfNums
              => (pc = "encoded" /\ encoded_len = EncodedLenOfNums)
        /\ WorstCaseLen >= EncodedLenOfNums

C15_Witness ==
    /\ pc = "panicked"
    /\ panic = SliceBoundsMsg
    /\ last.op = "encode"
    /\ encoder = "Sse41"
    /\ N = 20
    /\ EncodedLenOfNums > 30
    /\ last.arg = EncodedLenOfNums - 1
    /\ encoded[1] # GarbageByte

\* the cursor reads a stream whose final control byte has its unused bit pairs
\* set
JunkCursor ==
    /\ pc \in {"cursor", "returned", "panicked"}
    /\ N % 4 # 0
    /\ Len(cursor.control_bytes) = CeilDiv4(N)
    /\ cursor.control_bytes[CeilDiv4(N)] # encoded[CeilDiv4(N)]

\* C16: partial final control byte.  When N mod 4 = r > 0 encode writes one
\* extra control byte whose bit pairs r..3 are zero; a cursor over a stream
\* that differs only in those bit pairs delivers the same numbers, returns the
\* same counts and reports the same input_consumed().
C16_PartialControlByte ==
    /\ (Encoded /\ N % 4 # 0) =>
          /\ encoded_len = (N \div 4) + 1 + SumLen(nums, N)
          /\ \A i \in (N % 4)..3 : BitPair(encoded[(N \div 4) + 1], i) = 0
    /\ JunkCursor =>
          /\ input_consumed(cursor) = CeilDiv4(N) + SumLen(nums, consumed)
          /\ DecodeCall =>
                /\ pc = "returned"
                /\ last.ret = IF last.arg >= N - last.position
                              THEN N - last.position
                              ELSE 4 * (last.arg \div 4)
                /\ Delivered(last.events)
                     = SubSeq(nums, last.position + 1,
                              last.position + last.ret)

C16_Witness ==
    /\ JunkCursor
    /\ pc = "returned"
    /\ N = 19
    /\ BitPair(cursor.control_bytes[5], 3) = 3
    /\ BitPair(encoded[5], 3) = 0
    /\ last.op = "decode_sink"
    /\ last.position = 16
    /\ last.ret = 3
    /\ Delivered(last.events) = SubSeq(nums, 17, 19)
    /\ input_consumed(cursor) = encoded_len

\* C17: a finished cursor stays finished.  Once all N numbers are delivered or
\* skipped, a decode_sink or decode_slice call with any budget returns 0,
\* calls the sink not at all and leaves the counters and input_consumed() as
\* they were.
C17_FinishedStaysFinished ==
    (DecodeCall /\ last.before.nums_decoded = N) =>
        /\ pc = "returned"
        /\ last.ret = 0
        /\ last.events = << >>
        /\ Counters(cursor) = last.before
        /\ input_consumed(cursor)
             = CeilDiv4(N) + last.before.encoded_bytes_read
        /\ ~has_more(cursor)

C17_Witness ==
    /\ pc = "returned"
    /\ last.op = "decode_sink"
    /\ last.decoder = "Ssse3"
    /\ N = 19
    /\ skipped = 0
    /\ last.position = 19
    /\ last.before.nums_decoded = 19
    /\ last.arg = 4
    /\ last.ret = 0
    /\ last.events = << >>
    /\ input_consumed(cursor) = encoded_len

\* C18: a decode_sink call with max_numbers_to_decode < 4 while a complete
\* quad is still undecoded returns 0, calls neither on_number nor on_quad and
\* leaves nums_decoded, control_bytes_read and encoded_bytes_read unchanged.
C18_BudgetBelowQuad ==
    (last.op = "decode_sink" /\ last.arg < 4
       /\ last.before.control_bytes_read < N \div 4)
        => /\ pc = "returned"
           /\ last.ret = 0
           /\ last.events = << >>
           /\ Counters(cursor) = last.before

C18_Witness ==
    /\ pc = "returned"
    /\ last.op = "decode_sink"
    /\ last.decoder = "Scalar"
    /\ N = 19
    /\ last.position = 8
    /\ last.before.control_bytes_read = 2
    /\ last.arg = 3
    /\ last.ret = 0
    /\ cursor.nums_decoded = 8

\* the complete control bytes of the region a kernel was called on, and the
\* count it has to consume of them
RegionLen == (N \div 4) - last.before.control_bytes_read
KernelQuads ==
    IF last.decoder = "Scalar" THEN Min(last.arg, RegionLen)
    ELSE Min(last.arg, Max(0, RegionLen - 3))

\* C19: kernel honors budget.  On a region of C complete control bytes and
\* with any budget a complete-quad kernel returns (n, b) with n a multiple of
\* 4, n <= 4 * budget, b the sum of the table quad lengths of the n / 4
\* control bytes consumed; Scalar consumes min(budget, C) control bytes, Ssse3
\* min(budget, max(0, C - 3)); only whole quads are delivered.
C19_KernelBudget ==
    last.op = "decode_quads" =>
        /\ pc = "returned"
        /\ last.ret % 4 = 0
        /\ last.ret <= 4 * last.arg
        /\ last.ret = 4 * KernelQuads
        /\ last.bytes_read
             = cumulative_encoded_len(
                   Slice(cursor.control_bytes, last.before.control_bytes_read,
                         last.ret \div 4))
        /\ last.bytes_read
             = SumLen(nums, last.position + last.ret)
                 - SumLen(nums, last.position)
        /\ Delivered(last.events)
             = SubSeq(nums, last.position + 1, last.position + last.ret)
        /\ last.decoder = "Ssse3" =>
              /\ Len(last.events) = KernelQuads
              /\ \A i \in 1..Len(last.events) : last.events[i].on = "quad"
        /\ last.decoder = "Scalar" =>
              /\ Len(last.events) = 4 * KernelQuads
              /\ \A i \in 1..Len(last.events) : last.events[i].on = "number"

C19_Witness ==
    /\ pc = "returned"
    /\ last.op = "decode_quads"
    /\ last.decoder = "Ssse3"
    /\ N = 21
    /\ last.position = 4
    /\ RegionLen = 4
    /\ last.arg = 3
    /\ last.ret = 4
    /\ last.bytes_read = SumLen(nums, 8) - SumLen(nums, 4)
    /\ last.bytes_read > 4

\* the calls that run a decode kernel
KernelOps == {"decode", "decode_sink", "decode_slice", "decode_quads"}

\* the 16-byte loads of the last call: the quads delivered by on_quad
Loads == { i \in 1..Len(last.events) : last.events[i].on = "quad" }

\* C20: SIMD decode load safety.  On a well-formed stream, from every cursor
\* state reached by skip and decode calls, each 16-byte payload load of the
\* Ssse3 kernel is for a control byte before the last three complete ones and
\* ends inside the payload (offset + 16 <= payload length), so the
\* bounds-checked slice of the payload never fails.
C20_LoadSafety ==
    (last.op \in KernelOps /\ last.decoder = "Ssse3") =>
        /\ panic # SliceBoundsMsg
        /\ (pc = "panicked") => (last.op = "decode" /\ panic = OutputTooSmallMsg)
        /\ last.op # "decode" =>
              Len(cursor.encoded_nums) = encoded_len - CeilDiv4(N)
        /\ \A i \in Loads :
              /\ (last.position + last.events[i].index) \div 4 < (N \div 4) - 3
              /\ last.before.encoded_bytes_read
                   = SumLen(nums, last.position)
              /\ SumLen(nums, last.position + last.events[i].index) + 16
                   <= Len(cursor.encoded_nums)

C20_Witness ==
    /\ pc = "returned"
    /\ last.op = "decode_sink"
    /\ last.decoder = "Ssse3"
    /\ N = 20
    /\ last.position = 4
    /\ last.ret = 16
    /\ Loads = {1}
    /\ last.events[1].index = 0
    /\ SumLen(nums, 4) + 16 = Len(cursor.encoded_nums)

\* the payload region of the buffer after a direct kernel call on
\* last.arg control bytes
KernelPayload == Slice(encoded, last.arg, Len(encoded) - last.arg)

\* zero bytes the last 16-byte store of the kernel leaves after bytes_written
TrailingZeroLen ==
    IF last.ret = 0 THEN 0
    ELSE 16 - (SumLen(nums, last.ret) - SumLen(nums, last.ret - 4))

\* C21: SIMD encode tail restriction.  Given C complete control bytes the
\* Sse41 kernel encodes exactly max(0, C - 3) quads, never the last 3; every
\* 16-byte store ends at or before the end of the payload of all C quads;
\* apart from the zero bytes (at most 16 - len) after its last quad the
\* kernel touches nothing beyond the bytes_written it reports.
C21_EncodeTail ==
    (last.op = "encode_quads" /\ encoder = "Sse41") =>
        /\ pc = "kernel"
        /\ last.ret = 4 * Max(0, last.arg - 3)
        /\ last.bytes_read = SumLen(nums, last.ret)
        /\ last.bytes_read
             = cumulative_encoded_len(Slice(encoded, 0, last.ret \div 4))
        /\ \A q \in 0..(last.arg - 1) :
              IF q < last.ret \div 4
              THEN /\ \A i \in 0..3 :
                         BitPair(encoded[q + 1], i)
                           = ByteLen(nums[4 * q + i + 1]) - 1
                   /\ SumLen(nums, 4 * q) + 16 <= SumLen(nums, 4 * last.arg)
              ELSE encoded[q + 1] = GarbageByte
        /\ Slice(KernelPayload, 0, last.bytes_read)
             = Payload(nums, 0, last.ret)
        /\ \A i \in 1..Len(KernelPayload) :
              /\ (i > last.bytes_read
                    /\ i <= last.bytes_read + TrailingZeroLen)
                     => KernelPayload[i] = 0
              /\ i > last.bytes_read + TrailingZeroLen
                     => KernelPayload[i] = GarbageByte

C21_Witness ==
    /\ pc = "kernel"
    /\ last.op = "encode_quads"
    /\ encoder = "Sse41"
    /\ last.arg = 5
    /\ last.ret = 8
    /\ last.bytes_read = 8
    /\ SumLen(nums, 4) + 16 = SumLen(nums, 20)
    /\ TrailingZeroLen = 12
    /\ KernelPayload[20] = 0
    /\ KernelPayload[21] = GarbageByte

\* the length code (length minus 1) of lane i of the quad
LaneCode(i) == ByteLen(nums[i + 1]) - 1

\* C22: SSE4.1 branch-free length arithmetic.  For every quad the register
\* code_and_length holds in byte 3 of lane 0 the control byte
\* c0 | c1 << 2 | c2 << 4 | c3 << 6 with ci = len(xi) - 1 and in byte 3 of
\* lane 1 the sum c0 + c1 + c2 + c3; the control byte and the length
\* (sum + 4) are those the scalar encoder computes.
C22_LengthArithmetic ==
    last.op = "code_and_length" =>
        /\ last.output[4]
             = LaneCode(0) + 4 * LaneCode(1) + 16 * LaneCode(2)
                 + 64 * LaneCode(3)
        /\ last.output[8]
             = LaneCode(0) + LaneCode(1) + LaneCode(2) + LaneCode(3)
        /\ last.ret = last.output[4]
        /\ last.bytes_read = last.output[8] + 4
        /\ last.bytes_read = SumLen(nums, 4)
        /\ \E s \in { do_encode_quads(nums, << GarbageByte >>,
                                      Slice(encoded, 0, 16)) } :
              /\ s.ok
              /\ s.control_bytes = << last.ret >>
              /\ s.bytes_written = last.bytes_read

C22_Witness ==
    /\ pc = "kernel"
    /\ last.op = "code_and_length"
    /\ nums = << U32(0, 0), U32(0, 256), U32(1, 0), U32(65535, 65535) >>
    /\ last.ret = 228
    /\ last.output[8] = 6
    /\ last.bytes_read = 10

\* C23: the encoded form does not depend on the kernel.  For every input the
\* encode driver run with the Sse41 encoder returns the same byte count and
\* leaves the same bytes in output[0..count] as the driver run with the
\* Scalar encoder, and it fails on an output region exactly when the Scalar
\* run does; the zero padding of every 16-byte store is overwritten, so the
\* payload is the concatenation of the numbers' low bytes.
C23_KernelIndependent ==
    (encoder = "Sse41" /\ pc \in {"encoded", "panicked"}) =>
        \E s \in { encode_transformed("Scalar", nums,
                                     FreshEncoded(N)) } :
           /\ s.ok
           /\ pc = "encoded" =>
                 /\ encoded_len = s.ret
                 /\ Slice(encoded, 0, encoded_len) = Slice(s.output, 0, s.ret)
                 /\ Slice(encoded, CeilDiv4(N), encoded_len - CeilDiv4(N))
                      = Payload(nums, 0, N)
           /\ (pc = "panicked" /\ last.op = "encode") =>
                 /\ panic = SliceBoundsMsg
                 /\ ~encode_transformed("Scalar", nums,
                        Slice(FreshEncoded(N), 0, last.arg)).ok
                 /\ last.arg < s.ret

C23_Witness ==
    /\ pc = "encoded"
    /\ encoder = "Sse41"
    /\ nums = Gen(21, 1)
    /\ encoded_len = 6 + SumLen(nums, 21)
    /\ encoded_len > 40
    /\ encoded[encoded_len] # 0
    /\ encoded[encoded_len + 1] = GarbageByte

\* the cursor as it was before the last call
CursorBefore ==
    [cursor EXCEPT !.nums_decoded = last.before.nums_decoded,
                   !.control_bytes_read = last.before.control_bytes_read,
                   !.encoded_bytes_read = last.before.encoded_bytes_read]

\* C24: the decoder choice is unobservable through the cursor.  From every
\* cursor state reached by skip and decode calls (made with either decoder),
\* a decode_sink or decode_slice call with Ssse3 returns the same count,
\* delivers the same (index, value) pairs in the same order (leaves the same
\* output slice) and ends with the same counters as the same call with
\* Scalar.
C24_DecoderUnobservable ==
    (DecodeCall /\ last.decoder = "Ssse3") =>
        /\ pc = "returned"
        /\ \E s \in { decode_sink(CursorBefore, "Scalar", last.arg) } :
              /\ s.ok
              /\ s.ret = last.ret
              /\ TupleSinkRun(s.events) = TupleSinkRun(last.events)
              /\ s.cursor = cursor
        /\ last.op = "decode_slice" =>
              \E s \in { decode_slice(CursorBefore, "Scalar",
                             Slice(CallerBuffer(last.arg), 0, last.arg)) } :
                 /\ s.ok
                 /\ Rejoin(CallerBuffer(last.arg), last.arg, s.output)
                      = last.output

C24_Witness ==
    /\ pc = "returned"
    /\ last.op = "decode_sink"
    /\ last.decoder = "Ssse3"
    /\ nums = Gen(21, 1)
    /\ last.position = 4
    /\ last.ret = 17
    /\ Len(last.events) = 14
    /\ last.events[1].on = "quad"
    /\ last.events[2].on = "number"
    /\ TupleSinkRun(last.events)[17] = << 16, nums[21] >>

\* numbers the cursor had left before the last call
RemainingBefore == N - last.before.nums_decoded

\* a call made while has_more() with a budget of at least 4, or of at least
\* the numbers left, delivers something
ProgressMade ==
    (DecodeCall /\ RemainingBefore > 0
       /\ (last.arg >= 4 \/ last.arg >= RemainingBefore))
        => /\ pc # "panicked"
           /\ last.ret >= 1
           /\ Len(Delivered(last.events)) = last.ret
           /\ cursor.nums_decoded = last.before.nums_decoded + last.ret

\* with only the partial quad of r numbers left, a budget below r gives 0
NoProgress ==
    (DecodeCall /\ RemainingBefore > 0
       /\ last.before.control_bytes_read = N \div 4
       /\ last.arg < RemainingBefore)
        => /\ pc # "panicked"
           /\ last.ret = 0
           /\ last.events = << >>
           /\ Counters(cursor) = last.before

\* C25: progress and termination.  Every decode_slice / decode_sink call made
\* while has_more() with a budget of at least 4, or of at least the numbers
\* left, delivers at least one number, so the loop
\* while has_more() { decode_slice(buffer of length >= 4) } ends; with only
\* the partial quad of r numbers left a call with a budget below r returns 0
\* and makes no progress.
C25_Progress ==
    /\ []ProgressMade
    /\ []NoProgress
    /\ (pc = "loop") ~> (pc = "loop" /\ ~has_more(cursor))

C25_Witness ==
    /\ pc = "loop"
    /\ ~has_more(cursor)
    /\ last.op = "decode_slice"
    /\ last.decoder = "Ssse3"
    /\ N = 21
    /\ last.arg = 4
    /\ last.position = 20
    /\ last.ret = 1

\* the calls that move a cursor
CursorCall == last.op \in {"skip", "decode_sink", "decode_slice"}

\* C26: cursor counter invariant.  In every state reached from new(input, N)
\* by legal skip and decode calls, control_bytes_read <= floor(N/4),
\* nums_decoded <= N, and either nums_decoded = 4 * control_bytes_read (the
\* partial quad is not yet delivered) or nums_decoded = N with
\* control_bytes_read = floor(N/4) (it is delivered); no call decreases a
\* counter.
C26_CounterInvariant ==
    CursorLive =>
        /\ cursor.control_bytes_read <= N \div 4
        /\ cursor.nums_decoded <= N
        /\ \/ cursor.nums_decoded = 4 * cursor.control_bytes_read
           \/ /\ cursor.nums_decoded = N
              /\ cursor.control_bytes_read = N \div 4
        /\ CursorCall =>
              /\ last.before.nums_decoded <= cursor.nums_decoded
              /\ last.before.control_bytes_read <= cursor.control_bytes_read
              /\ last.before.encoded_bytes_read <= cursor.encoded_bytes_read

C26_Witness ==
    /\ pc = "returned"
    /\ last.op = "decode_slice"
    /\ last.decoder = "Ssse3"
    /\ N = 19
    /\ skipped = 8
    /\ last.before.nums_decoded = 12
    /\ last.before.control_bytes_read = 3
    /\ cursor.nums_decoded = 19
    /\ cursor.control_bytes_read = 4
    /\ cursor.nums_decoded # 4 * cursor.control_bytes_read

\* table lengths of the numbers of the partial quad, from the bit pairs of
\* the final control byte
PartialLens ==
    LET b == cursor.control_bytes[CeilDiv4(N)]
        r == N % 4
    IN  (IF r >= 1 THEN BitPair(b, 0) + 1 ELSE 0)
          + (IF r >= 2 THEN BitPair(b, 1) + 1 ELSE 0)
          + (IF r >= 3 THEN BitPair(b, 2) + 1 ELSE 0)

\* the partial quad has been delivered
PartialDelivered == cursor.nums_decoded > 4 * cursor.control_bytes_read

\* C27: payload position invariant.  encoded_bytes_read is the sum of the
\* table quad lengths of the first control_bytes_read control bytes, plus the
\* lengths of the numbers of the partial quad once they are delivered; it is
\* the total encoded length of the first nums_decoded numbers; and for a
\* stream of complete quads the table quad lengths of all control bytes sum
\* to the payload length encode produced.
C27_PayloadPosition ==
    /\ CursorLive =>
          /\ cursor.encoded_bytes_read
                = cumulative_encoded_len(
                      Slice(cursor.control_bytes, 0,
                            cursor.control_bytes_read))
                    + (IF PartialDelivered THEN PartialLens ELSE 0)
          /\ cursor.encoded_bytes_read = SumLen(nums, cursor.nums_decoded)
    /\ (Encoded /\ N % 4 = 0) =>
          cumulative_encoded_len(Slice(encoded, 0, N \div 4))
            = encoded_len - N \div 4

C27_Witness ==
    /\ pc = "returned"
    /\ last.op = "decode_sink"
    /\ last.decoder = "Scalar"
    /\ N = 18
    /\ skipped = 4
    /\ last.before.nums_decoded = 8
    /\ cursor.control_bytes_read = 4
    /\ PartialDelivered
    /\ PartialLens > 2
    /\ cursor.encoded_bytes_read > 18
    /\ cursor.encoded_bytes_read = encoded_len - 5

\* the control byte range decode_sink slices is not inverted
RangeInOrder(c) ==
    c.control_bytes_read <= c.encoded_shape.complete_control_bytes_len

\* the subtractions of a decode_sink call made from cursor c0, given what the
\* primary decoder and the scalar mop-up decoded
BudgetsInRange(c0, max_numbers_to_decode, primary, more) ==
    /\ RangeInOrder(c0)
    /\ RangeInOrder(primary.cursor)
    /\ max_numbers_to_decode \div 4 - primary.nums_decoded \div 4 >= 0
    /\ max_numbers_to_decode
         - (primary.nums_decoded + more.nums_decoded) >= 0
    /\ cursor.nums_decoded - c0.nums_decoded >= 0

\* C28: no unsigned underflow in decode_sink.  For every reachable cursor
\* state, every max_numbers_to_decode and both decoders, the scalar mop-up
\* budget (max / 4 minus the quads decoded by the primary decoder) and the
\* partial-quad budget (max minus the numbers decoded as complete quads in
\* this call) are non-negative, and the range
\* control_bytes_read..complete_control_bytes_len that slices the control
\* bytes is never inverted.
C28_NoUnderflow ==
    DecodeCall =>
        /\ pc # "panicked"
        /\ \E primary \in { DecodePrimary(CursorBefore, last.decoder,
                                           last.arg \div 4) } :
              \E more \in { DecodeMopUp(primary.cursor, last.arg \div 4,
                                        primary.nums_decoded) } :
                 BudgetsInRange(CursorBefore, last.arg, primary, more)

C28_Witness ==
    /\ pc = "returned"
    /\ last.op = "decode_sink"
    /\ last.decoder = "Ssse3"
    /\ N = 21
    /\ last.before.nums_decoded = 0
    /\ last.arg = 22
    /\ last.ret = 21
    /\ DecodePrimary(CursorBefore, "Ssse3", 5).nums_decoded = 8
    /\ DecodeMopUp(DecodePrimary(CursorBefore, "Ssse3", 5).cursor, 5, 8)
         .nums_decoded = 12

\* multiples of 4 up to n
QuadCounts(n) == { a \in 0..n : a % 4 = 0 }

\* C29: skip is decode-and-discard.  From any reachable cursor state in which
\* skip(4k) is legal, skip(4k) leaves the cursor in exactly the state
\* (nums_decoded, control_bytes_read, encoded_bytes_read, has_more,
\* input_consumed) in which decode_sink with max_numbers_to_decode = 4k and a
\* discarding sink leaves it, and skip(a) followed by skip(b) is skip(a + b).
C29_SkipIsDecode ==
    (pc = "returned" /\ last.op = "skip") =>
        /\ \A D \in Decoders :
              \E s \in { decode_sink(CursorBefore, D, last.arg) } :
                 /\ s.ok
                 /\ s.ret = last.arg
                 /\ Counters(s.cursor) = Counters(cursor)
                 /\ has_more(s.cursor) = has_more(cursor)
                 /\ input_consumed(s.cursor) = input_consumed(cursor)
                 /\ s.cursor = cursor
        /\ \A a \in QuadCounts(last.arg) :
              \E first \in { skip(CursorBefore, a) } :
                 /\ first.panic = NoPanic
                 /\ skip(first.cursor, last.arg - a)
                      = [panic |-> NoPanic, cursor |-> cursor]

C29_Witness ==
    /\ pc = "returned"
    /\ last.op = "skip"
    /\ last.arg = 12
    /\ N = 18
    /\ last.before.nums_decoded = 4
    /\ skipped = 12
    /\ cursor.nums_decoded = 16
    /\ cursor.encoded_bytes_read > 16
    /\ has_more(cursor)

\* the number given to the last encode_num_scalar call
EncodedNum == nums[last.arg]

NumCall == last.op \in {"encode_num_scalar", "decode_num_scalar"}

\* what encode_num_scalar returns and writes, and what decode_num_scalar
\* reads back
EncodeOneInteger ==
    /\ pc # "panicked"
    /\ last.ret = Max(1, 4 - (leading_zeros(EncodedNum) \div 8))
    /\ last.ret = ByteLen(EncodedNum)
    /\ Slice(encoded, 0, last.ret) = LowBytes(EncodedNum)
    /\ \A i \in (last.ret + 1)..Len(encoded) : encoded[i] = GarbageByte
    /\ \A k \in last.ret..3 : ByteAt(EncodedNum, k) = 0
    /\ last.op = "decode_num_scalar" => last.output = << EncodedNum >>

\* C30 as stated: encode-one-integer.  For every u32 n,
\* encode_num_scalar(n, region) returns
\* len = max(1, 4 - floor(leading_zero_bits(n) / 8)), writes the low len
\* little-endian bytes of n to region[0..len], leaves every position >= len
\* untouched, and the byte at position len - 1 is the most significant
\* non-zero byte of n; decode_num_scalar(len, region) then returns n.
C30_AsStated ==
    NumCall =>
        /\ EncodeOneInteger
        /\ encoded[last.ret] # 0

\* C30, amended: as above, but the byte at position len - 1 is the most
\* significant non-zero byte of n only when n is not 0; for n = 0 the length
\* is 1 and the byte written is 0.
C30_EncodeOneInteger ==
    NumCall =>
        /\ EncodeOneInteger
        /\ EncodedNum # U32(0, 0) => encoded[last.ret] # 0
        /\ EncodedNum = U32(0, 0) => last.ret = 1 /\ encoded[1] = 0

C30_Witness ==
    /\ pc = "decoded"
    /\ last.op = "decode_num_scalar"
    /\ EncodedNum = U32(1, 256)
    /\ last.ret = 3
    /\ Slice(encoded, 0, 4) = << 0, 1, 1, GarbageByte >>
    /\ last.output = << U32(1, 256) >>

====
